---- MODULE Spec2Model ----
(***************************************************************************)
(* Google Docs -> Markdown converter of google-workspace-mcp/tools/docs.go *)
(*                                                                         *)
(* Strings are sequences of characters; a character is a one-element      *)
(* TLA+ string, except for the code points that have no TLA+ escape,      *)
(* which carry their Unicode name (VT is U+000B, EMDASH is U+2014, ...).   *)
(* A Go pointer is either Nil or the record it points to.                  *)
(***************************************************************************)
EXTENDS Integers, Sequences, FiniteSets, TLC

VARIABLES
    pc,      \* position of the call: "call" before it runs, "fetch" while the handler
             \* waits for the Docs service, "done" after it returned
    input,   \* the arguments of the call, by the source's parameter names
    sb,      \* contents of the strings.Builder the walker writes to
    result,  \* the value the call returned
    pkg,     \* the package-level variables the calls read
    response \* the local variable response of GetContentHandler

vars == <<pc, input, sb, result, pkg, response>>

Nil == [null |-> TRUE]

(***************************************************************************)
(* Characters                                                              *)
(***************************************************************************)
NL == "\n"
SP == " "
TAB == "\t"
CR == "\r"
FF == "\f"
VT == "U+000B"
BS == "U+0008"
ESC == "U+001B"

\* the control characters U+0000..U+001F, in code point order
ControlChars ==
    <<"U+0000", "U+0001", "U+0002", "U+0003", "U+0004", "U+0005", "U+0006", "U+0007",
      BS, TAB, NL, VT, FF, CR, "U+000E", "U+000F",
      "U+0010", "U+0011", "U+0012", "U+0013", "U+0014", "U+0015", "U+0016", "U+0017",
      "U+0018", "U+0019", "U+001A", ESC, "U+001C", "U+001D", "U+001E", "U+001F">>
NEL == "U+0085"
NBSP == "U+00A0"
LSQUO == "U+2018"
RSQUO == "U+2019"
LDQUO == "U+201C"
RDQUO == "U+201D"
EMDASH == "U+2014"
OGHAMSP == "U+1680"
LSEP == "U+2028"
PSEP == "U+2029"
NNBSP == "U+202F"
MMSP == "U+205F"
IDEOSP == "U+3000"

\* U+2000..U+200A, the spaces of the General Punctuation block
GeneralSpaces ==
    {"U+2000", "U+2001", "U+2002", "U+2003", "U+2004", "U+2005", "U+2006", "U+2007",
     "U+2008", "U+2009", "U+200A"}

\* the cutset " \t\n" of strings.TrimLeft / strings.TrimRight in formatTextRun
Cutset == {SP, TAB, NL}

(***************************************************************************)
(* package strings                                                         *)
(***************************************************************************)
RECURSIVE Repeat(_, _)
Repeat(str, count) == IF count <= 0 THEN <<>> ELSE str \o Repeat(str, count - 1)

\* the strings of a sequence, joined in order
RECURSIVE Concat(_)
Concat(strs) == IF strs = <<>> THEN <<>> ELSE Head(strs) \o Concat(Tail(strs))

\* number of leading characters of str that satisfy the cutset
RECURSIVE LeadingIn(_, _)
LeadingIn(str, cutset) ==
    IF str # <<>> /\ Head(str) \in cutset THEN 1 + LeadingIn(Tail(str), cutset) ELSE 0

RECURSIVE TrailingIn(_, _)
TrailingIn(str, cutset) ==
    IF str # <<>> /\ str[Len(str)] \in cutset
    THEN 1 + TrailingIn(SubSeq(str, 1, Len(str) - 1), cutset)
    ELSE 0

TrimLeft(str, cutset) == SubSeq(str, LeadingIn(str, cutset) + 1, Len(str))

TrimRight(str, cutset) == SubSeq(str, 1, Len(str) - TrailingIn(str, cutset))

\* the white space strings.TrimSpace trims (unicode.IsSpace): the Latin-1
\* code points '\t', '\n', '\v', '\f', '\r', ' ', U+0085, U+00A0 and the
\* code points of category Z and property Pattern_White_Space beyond them
SpaceSet ==
    {SP, TAB, NL, VT, FF, CR, NEL, NBSP, OGHAMSP, LSEP, PSEP, NNBSP, MMSP, IDEOSP}
        \cup GeneralSpaces

TrimSpace(str) == TrimLeft(TrimRight(str, SpaceSet), SpaceSet)

HasSuffix(str, suffix) ==
    /\ Len(str) >= Len(suffix)
    /\ SubSeq(str, Len(str) - Len(suffix) + 1, Len(str)) = suffix

TrimSuffix(str, suffix) ==
    IF HasSuffix(str, suffix) THEN SubSeq(str, 1, Len(str) - Len(suffix)) ELSE str

\* strings.ReplaceAll for a one-character old string
RECURSIVE ReplaceAll(_, _, _)
ReplaceAll(str, old, new) ==
    IF str = <<>> THEN <<>>
    ELSE (IF Head(str) = old THEN new ELSE <<Head(str)>>) \o ReplaceAll(Tail(str), old, new)

(***************************************************************************)
(* Newline Normalizer                                                      *)
(***************************************************************************)
\* length of the run of newlines of str that starts at position i
RECURSIVE NewlineRun(_, _)
NewlineRun(str, i) ==
    IF i <= Len(str) /\ str[i] = NL THEN 1 + NewlineRun(str, i + 1) ELSE 0

\* the regular expression \n{3,}: the shortest match it accepts
multipleNewlinesRe == 3

\* the values of types.OutputFormat
OutputFormatJSON == "json"

OutputFormatCompact == "compact"

\* the package-level variables once the packages are initialized:
\* tools.multipleNewlinesRe, and types.GlobalOutputFormat with its default
Package ==
    [multipleNewlinesRe |-> multipleNewlinesRe, GlobalOutputFormat |-> OutputFormatCompact]

\* types.init: GlobalOutputFormat is JSON when MCP_OUTPUT_FORMAT is "json"
Packages ==
    { [Package EXCEPT !.GlobalOutputFormat = format] :
        format \in {OutputFormatCompact, OutputFormatJSON} }

\* a matcher that stops at the shortest match instead of the longest
RECURSIVE ReplaceAllString_lazy(_, _, _)
ReplaceAllString_lazy(str, i, repl) ==
    IF i > Len(str) THEN <<>>
    ELSE IF NewlineRun(str, i) >= multipleNewlinesRe
         THEN repl \o ReplaceAllString_lazy(str, i + multipleNewlinesRe, repl)
         ELSE <<str[i]>> \o ReplaceAllString_lazy(str, i + 1, repl)

\* regexp.ReplaceAllString(s, "\n\n"): leftmost, greedy, non-overlapping matches
RECURSIVE ReplaceAllString(_, _, _)
ReplaceAllString(str, i, repl) ==
    IF i > Len(str) THEN <<>>
    ELSE IF NewlineRun(str, i) >= multipleNewlinesRe
         THEN repl \o ReplaceAllString(str, i + NewlineRun(str, i), repl)
         ELSE <<str[i]>> \o ReplaceAllString(str, i + 1, repl)

\* a normalizer that leaves two blank lines
normalizeNewlines_three(str) == ReplaceAllString(str, 1, <<NL, NL, NL>>)

normalizeNewlines(str) == ReplaceAllString(str, 1, <<NL, NL>>)

(***************************************************************************)
(* Bounded strings                                                         *)
(***************************************************************************)
RECURSIVE StringsUpTo(_, _)
StringsUpTo(alphabet, n) ==
    IF n = 0 THEN {<<>>}
    ELSE LET shorter == StringsUpTo(alphabet, n - 1)
         IN  shorter \cup {Append(w, c) : w \in {v \in shorter : Len(v) = n - 1}, c \in alphabet}

(***************************************************************************)
(* SpecNormalize: normalizeNewlines applied to every bounded string        *)
(***************************************************************************)
MaxNormLen == 8

NormAlphabet == {NL, "a", SP}

InitNormalize ==
    /\ pc = "call"
    /\ input \in [s : StringsUpTo(NormAlphabet, MaxNormLen)]
    /\ sb = <<>>
    /\ result = <<>>
    /\ pkg = Package
    /\ response = Nil

CallNormalize ==
    /\ pc = "call"
    /\ result' = normalizeNewlines(input.s)
    /\ pc' = "done"
    /\ UNCHANGED <<input, sb, pkg, response>>

NextNormalize == CallNormalize

SpecNormalize == InitNormalize /\ [][NextNormalize]_vars

HasTripleNewline(str) ==
    \E i \in 1..(Len(str) - 2) : str[i] = NL /\ str[i + 1] = NL /\ str[i + 2] = NL

\* the maximal runs of equal characters of str, in order, as <<character, length>>
RECURSIVE RunsOf(_)
RunsOf(str) ==
    IF str = <<>> THEN <<>>
    ELSE LET n == LeadingIn(str, {Head(str)})
         IN  <<(<<Head(str), n>>)>> \o RunsOf(SubSeq(str, n + 1, Len(str)))

\* C1: normalizeNewlines is idempotent, and its result never holds three
\* consecutive newlines.
C1_NormalizeIdempotent ==
    pc = "done" =>
        /\ normalizeNewlines(result) = result
        /\ ~HasTripleNewline(result)

C1_Witness ==
    /\ pc = "done"
    /\ HasTripleNewline(input.s)
    /\ result # input.s

\* C2: every maximal run of three or more newlines becomes exactly two newlines
\* and every other run (one or two newlines, any other character) is kept in
\* place; a string without a run of three newlines is returned unchanged.
C2_NormalizeCollapsesRuns ==
    pc = "done" =>
        LET runs == RunsOf(input.s)
        IN  /\ RunsOf(result) =
                  [k \in 1..Len(runs) |->
                      IF runs[k][1] = NL /\ runs[k][2] >= 3 THEN <<NL, 2>> ELSE runs[k]]
            /\ (~HasTripleNewline(input.s) => result = input.s)

C2_Witness ==
    /\ pc = "done"
    /\ \E k \in 1..Len(RunsOf(input.s)) : RunsOf(input.s)[k] = <<NL, 4>>
    /\ \E k \in 1..Len(RunsOf(input.s)) : RunsOf(input.s)[k] = <<NL, 2>>
    /\ Len(result) = Len(input.s) - 2

(***************************************************************************)
(* Inline Run Formatter                                                    *)
(***************************************************************************)
\* the vertical-tab and smart-typography replacements of formatTextRun
replaceTypography(content) ==
    LET t1 == ReplaceAll(content, VT, <<NL, NL>>)
        t2 == ReplaceAll(t1, LSQUO, <<"'">>)
        t3 == ReplaceAll(t2, RSQUO, <<"'">>)
        t4 == ReplaceAll(t3, LDQUO, <<"\"">>)
        t5 == ReplaceAll(t4, RDQUO, <<"\"">>)
    IN  ReplaceAll(t5, EMDASH, <<"-", "-">>)

\* a link that keeps the run's leading whitespace in front of the bracket
formatLink_keepLeading(text, url) ==
    LET trimmed == TrimSpace(text)
        prefix == SubSeq(text, 1, Len(text) - Len(TrimLeft(text, Cutset)))
        suffix == SubSeq(text, Len(TrimRight(text, Cutset)) + 1, Len(text))
    IN  prefix \o <<"[">> \o trimmed \o <<"]", "(">> \o url \o <<")">> \o suffix

\* fmt.Sprintf("[%s](%s)%s", trimmed, style.Link.Url, suffix)
formatLink(text, url) ==
    LET trimmed == TrimSpace(text)
        suffix == SubSeq(text, Len(TrimRight(text, Cutset)) + 1, Len(text))
    IN  <<"[">> \o trimmed \o <<"]", "(">> \o url \o <<")">> \o suffix

\* an emphasis step that strikes through first and emphasises around it
formatEmphasis_strikeInside(trimmed, style) ==
    LET struck == IF style.Strikethrough THEN <<"~", "~">> \o trimmed \o <<"~", "~">>
                  ELSE trimmed
    IN  IF style.Bold /\ style.Italic
        THEN <<"*", "*", "*">> \o struck \o <<"*", "*", "*">>
        ELSE IF style.Bold THEN <<"*", "*">> \o struck \o <<"*", "*">>
        ELSE IF style.Italic THEN <<"*">> \o struck \o <<"*">>
        ELSE struck

\* the markers formatTextRun puts around the trimmed content
formatEmphasis(trimmed, style) ==
    LET formatted ==
            IF style.Bold /\ style.Italic
            THEN <<"*", "*", "*">> \o trimmed \o <<"*", "*", "*">>
            ELSE IF style.Bold THEN <<"*", "*">> \o trimmed \o <<"*", "*">>
            ELSE IF style.Italic THEN <<"*">> \o trimmed \o <<"*">>
            ELSE trimmed
    IN  IF style.Strikethrough THEN <<"~", "~">> \o formatted \o <<"~", "~">>
        ELSE formatted

\* a formatter that applies the emphasis to the core of a link as well
formatTextRun_emphasisedLink(tr) ==
    IF tr = Nil \/ tr.Content = <<>> THEN <<>>
    ELSE LET text == replaceTypography(tr.Content)
             style == tr.TextStyle
             emphasised ==
                 IF style # Nil /\ (style.Bold \/ style.Italic \/ style.Strikethrough)
                 THEN LET leadingSpace ==
                              SubSeq(text, 1, Len(text) - Len(TrimLeft(text, Cutset)))
                          trailingSpace ==
                              SubSeq(text, Len(TrimRight(text, Cutset)) + 1, Len(text))
                      IN  leadingSpace \o formatEmphasis(TrimSpace(text), style)
                              \o trailingSpace
                 ELSE text
         IN  IF TrimSpace(text) = <<>> THEN text
             ELSE IF style # Nil /\ style.Link # Nil /\ style.Link.Url # <<>>
                  THEN formatLink(emphasised, style.Link.Url)
             ELSE emphasised

\* a formatter without the tests for white-space-only text
formatTextRun_noBlankTest(tr) ==
    IF tr = Nil \/ tr.Content = <<>> THEN <<>>
    ELSE LET text == replaceTypography(tr.Content)
             style == tr.TextStyle
         IN  IF style # Nil /\ style.Link # Nil /\ style.Link.Url # <<>>
             THEN formatLink(text, style.Link.Url)
             ELSE IF style # Nil /\ (style.Bold \/ style.Italic \/ style.Strikethrough)
                  THEN LET leadingSpace ==
                               SubSeq(text, 1, Len(text) - Len(TrimLeft(text, Cutset)))
                           trailingSpace ==
                               SubSeq(text, Len(TrimRight(text, Cutset)) + 1, Len(text))
                       IN  leadingSpace \o formatEmphasis(TrimSpace(text), style)
                               \o trailingSpace
             ELSE text

formatTextRun(tr) ==
    IF tr = Nil \/ tr.Content = <<>> THEN <<>>
    ELSE LET text == replaceTypography(tr.Content)
             style == tr.TextStyle
         IN  IF TrimSpace(text) = <<>> THEN text
             ELSE IF /\ style # Nil
                     /\ style.Link # Nil
                     /\ style.Link.Url # <<>>
                     /\ TrimSpace(text) # <<>>
                  THEN formatLink(text, style.Link.Url)
             ELSE IF style # Nil /\ (style.Bold \/ style.Italic \/ style.Strikethrough)
                  THEN IF TrimSpace(text) = <<>> THEN text
                       ELSE LET leadingSpace ==
                                    SubSeq(text, 1, Len(text) - Len(TrimLeft(text, Cutset)))
                                trailingSpace ==
                                    SubSeq(text, Len(TrimRight(text, Cutset)) + 1, Len(text))
                            IN  leadingSpace \o formatEmphasis(TrimSpace(text), style)
                                    \o trailingSpace
             ELSE text

(***************************************************************************)
(* Paragraph Renderer                                                      *)
(***************************************************************************)
Min(a, b) == IF a < b THEN a ELSE b

\* the deepest Markdown heading, the cap of min(headingLevel+headingOffset, 6)
MaxHeadingLevel == 6

\* the switch on para.ParagraphStyle.NamedStyleType
headingLevel(para) ==
    IF para.ParagraphStyle = Nil THEN 0
    ELSE CASE para.ParagraphStyle.NamedStyleType = "TITLE" -> 1
           [] para.ParagraphStyle.NamedStyleType = "HEADING_1" -> 1
           [] para.ParagraphStyle.NamedStyleType = "HEADING_2" -> 2
           [] para.ParagraphStyle.NamedStyleType = "HEADING_3" -> 3
           [] para.ParagraphStyle.NamedStyleType = "HEADING_4" -> 4
           [] para.ParagraphStyle.NamedStyleType = "HEADING_5" -> 5
           [] para.ParagraphStyle.NamedStyleType = "HEADING_6" -> 6
           [] OTHER -> 0

\* a heading prefix that adds the offset without capping the level
headingPrefix_uncapped(para, headingOffset) ==
    IF headingLevel(para) > 0
    THEN Repeat(<<"#">>, headingLevel(para) + headingOffset) \o <<SP>>
    ELSE <<>>

headingPrefix(para, headingOffset) ==
    IF headingLevel(para) > 0
    THEN LET adjustedLevel == Min(headingLevel(para) + headingOffset, MaxHeadingLevel)
         IN  Repeat(<<"#">>, adjustedLevel) \o <<SP>>
    ELSE <<>>

\* nestingLevel of the bullet: para.Bullet.NestingLevel when positive, else 0
nestingLevelOf(para) ==
    IF para.Bullet.NestingLevel > 0 THEN para.Bullet.NestingLevel ELSE 0

\* lists[listId] of a non-nil catalog: the entry, or Nil when the id is no key
lookupList(lists, listId) ==
    IF \E e \in lists.entries : e.ListId = listId
    THEN (CHOOSE e \in lists.entries : e.ListId = listId).List
    ELSE Nil

OrderedGlyphTypes == {"DECIMAL", "ALPHA", "ROMAN"}

\* an ordered-list test that reads the glyph type of the list's first level
isOrdered_firstLevel(para, lists) ==
    /\ lists # Nil
    /\ para.Bullet.ListId # ""
    /\ lookupList(lists, para.Bullet.ListId) # Nil
    /\ LET list == lookupList(lists, para.Bullet.ListId)
       IN  /\ list.ListProperties # Nil
           /\ Len(list.ListProperties.NestingLevels) > 0
           /\ list.ListProperties.NestingLevels[1].GlyphType \in OrderedGlyphTypes

isOrdered(para, lists) ==
    /\ lists # Nil
    /\ para.Bullet.ListId # ""
    /\ lookupList(lists, para.Bullet.ListId) # Nil
    /\ LET list == lookupList(lists, para.Bullet.ListId)
       IN  /\ list.ListProperties # Nil
           /\ Len(list.ListProperties.NestingLevels) > nestingLevelOf(para)
           /\ list.ListProperties.NestingLevels[nestingLevelOf(para) + 1].GlyphType
                  \in OrderedGlyphTypes

\* a bullet prefix that indents by one space per nesting level
bulletPrefix_oneSpace(para, lists) ==
    IF para.Bullet = Nil THEN <<>>
    ELSE Repeat(<<SP>>, nestingLevelOf(para))
             \o (IF isOrdered(para, lists) THEN <<"1", ".", SP>> ELSE <<"-", SP>>)

bulletPrefix(para, lists) ==
    IF para.Bullet = Nil THEN <<>>
    ELSE LET indent == Repeat(<<SP, SP>>, nestingLevelOf(para))
         IN  IF isOrdered(para, lists) THEN indent \o <<"1", ".", SP>>
             ELSE indent \o <<"-", SP>>

\* the loop over para.Elements that fills paraContent
RECURSIVE paraContent(_)
paraContent(elements) ==
    IF elements = <<>> THEN <<>>
    ELSE LET e == Head(elements)
         IN  (IF e.TextRun # Nil /\ e.TextRun.Content # <<>>
              THEN formatTextRun(e.TextRun)
              ELSE <<>>) \o paraContent(Tail(elements))

\* a paragraph renderer that ends a list item without a newline
processParagraph_noLineEnd(buf, para, lists, headingOffset) ==
    IF para = Nil THEN buf
    ELSE LET hPrefix == headingPrefix(para, headingOffset)
             bPrefix == bulletPrefix(para, lists)
             content == paraContent(para.Elements)
             stripped == TrimSuffix(content, <<NL>>)
         IN  IF TrimSpace(content) = <<>>
             THEN IF ~HasSuffix(buf, <<NL, NL>>) THEN buf \o <<NL>> ELSE buf
             ELSE IF hPrefix # <<>>
             THEN (IF Len(buf) > 0 /\ ~HasSuffix(buf, <<NL, NL>>) THEN buf \o <<NL>> ELSE buf)
                      \o hPrefix \o stripped \o <<NL, NL>>
             ELSE IF bPrefix # <<>>
             THEN IF TrimSpace(stripped) = <<>> \/ TrimSpace(stripped) = <<"-">>
                  THEN buf
                  ELSE buf \o bPrefix \o stripped \o <<>>
             ELSE buf \o stripped \o <<NL, NL>>

\* a paragraph renderer that rewrites the end of the builder before a
\* heading: the newlines that end it are replaced by a blank line
processParagraph_rewriteTail(buf, para, lists, headingOffset) ==
    IF para = Nil THEN buf
    ELSE LET hPrefix == headingPrefix(para, headingOffset)
             bPrefix == bulletPrefix(para, lists)
             content == paraContent(para.Elements)
             stripped == TrimSuffix(content, <<NL>>)
         IN  IF TrimSpace(content) = <<>>
             THEN IF ~HasSuffix(buf, <<NL, NL>>) THEN buf \o <<NL>> ELSE buf
             ELSE IF hPrefix # <<>>
             THEN (IF TrimRight(buf, {NL}) # <<>> THEN TrimRight(buf, {NL}) \o <<NL, NL>> ELSE <<>>)
                      \o hPrefix \o stripped \o <<NL, NL>>
             ELSE IF bPrefix # <<>>
             THEN IF TrimSpace(stripped) = <<>> \/ TrimSpace(stripped) = <<"-">>
                  THEN buf
                  ELSE buf \o bPrefix \o stripped \o <<NL>>
             ELSE buf \o stripped \o <<NL, NL>>

\* a paragraph renderer that takes the bullet branch before the heading branch
processParagraph_bulletFirst(buf, para, lists, headingOffset) ==
    IF para = Nil THEN buf
    ELSE LET hPrefix == headingPrefix(para, headingOffset)
             bPrefix == bulletPrefix(para, lists)
             content == paraContent(para.Elements)
             stripped == TrimSuffix(content, <<NL>>)
         IN  IF TrimSpace(content) = <<>>
             THEN IF ~HasSuffix(buf, <<NL, NL>>) THEN buf \o <<NL>> ELSE buf
             ELSE IF bPrefix # <<>>
             THEN IF TrimSpace(stripped) = <<>> \/ TrimSpace(stripped) = <<"-">>
                  THEN buf
                  ELSE buf \o bPrefix \o stripped \o <<NL>>
             ELSE IF hPrefix # <<>>
             THEN (IF Len(buf) > 0 /\ ~HasSuffix(buf, <<NL, NL>>) THEN buf \o <<NL>> ELSE buf)
                      \o hPrefix \o stripped \o <<NL, NL>>
             ELSE buf \o stripped \o <<NL, NL>>

\* a paragraph renderer that writes the "-" placeholder like any list item
processParagraph_keepPlaceholder(buf, para, lists, headingOffset) ==
    IF para = Nil THEN buf
    ELSE LET hPrefix == headingPrefix(para, headingOffset)
             bPrefix == bulletPrefix(para, lists)
             content == paraContent(para.Elements)
             stripped == TrimSuffix(content, <<NL>>)
         IN  IF TrimSpace(content) = <<>>
             THEN IF ~HasSuffix(buf, <<NL, NL>>) THEN buf \o <<NL>> ELSE buf
             ELSE IF hPrefix # <<>>
             THEN (IF Len(buf) > 0 /\ ~HasSuffix(buf, <<NL, NL>>) THEN buf \o <<NL>> ELSE buf)
                      \o hPrefix \o stripped \o <<NL, NL>>
             ELSE IF bPrefix # <<>>
             THEN IF TrimSpace(stripped) = <<>>
                  THEN buf
                  ELSE buf \o bPrefix \o stripped \o <<NL>>
             ELSE buf \o stripped \o <<NL, NL>>

\* a paragraph renderer that writes a heading right after what the builder holds
processParagraph_noSeparator(buf, para, lists, headingOffset) ==
    IF para = Nil THEN buf
    ELSE LET hPrefix == headingPrefix(para, headingOffset)
             bPrefix == bulletPrefix(para, lists)
             content == paraContent(para.Elements)
             stripped == TrimSuffix(content, <<NL>>)
         IN  IF TrimSpace(content) = <<>>
             THEN IF ~HasSuffix(buf, <<NL, NL>>) THEN buf \o <<NL>> ELSE buf
             ELSE IF hPrefix # <<>>
             THEN buf \o hPrefix \o stripped \o <<NL, NL>>
             ELSE IF bPrefix # <<>>
             THEN IF TrimSpace(stripped) = <<>> \/ TrimSpace(stripped) = <<"-">>
                  THEN buf
                  ELSE buf \o bPrefix \o stripped \o <<NL>>
             ELSE buf \o stripped \o <<NL, NL>>

\* a paragraph renderer that tests for a heading before it tests for blank
\* content
processParagraph_headingFirst(buf, para, lists, headingOffset) ==
    IF para = Nil THEN buf
    ELSE LET hPrefix == headingPrefix(para, headingOffset)
             bPrefix == bulletPrefix(para, lists)
             content == paraContent(para.Elements)
             stripped == TrimSuffix(content, <<NL>>)
         IN  IF hPrefix # <<>>
             THEN (IF Len(buf) > 0 /\ ~HasSuffix(buf, <<NL, NL>>) THEN buf \o <<NL>> ELSE buf)
                      \o hPrefix \o stripped \o <<NL, NL>>
             ELSE IF TrimSpace(content) = <<>>
             THEN IF ~HasSuffix(buf, <<NL, NL>>) THEN buf \o <<NL>> ELSE buf
             ELSE IF bPrefix # <<>>
             THEN IF TrimSpace(stripped) = <<>> \/ TrimSpace(stripped) = <<"-">>
                  THEN buf
                  ELSE buf \o bPrefix \o stripped \o <<NL>>
             ELSE buf \o stripped \o <<NL, NL>>

processParagraph(buf, para, lists, headingOffset) ==
    IF para = Nil THEN buf
    ELSE LET hPrefix == headingPrefix(para, headingOffset)
             bPrefix == bulletPrefix(para, lists)
             content == paraContent(para.Elements)
             stripped == TrimSuffix(content, <<NL>>)
         IN  IF TrimSpace(content) = <<>>
             THEN IF ~HasSuffix(buf, <<NL, NL>>) THEN buf \o <<NL>> ELSE buf
             ELSE IF hPrefix # <<>>
             THEN (IF Len(buf) > 0 /\ ~HasSuffix(buf, <<NL, NL>>) THEN buf \o <<NL>> ELSE buf)
                      \o hPrefix \o stripped \o <<NL, NL>>
             ELSE IF bPrefix # <<>>
             THEN IF TrimSpace(stripped) = <<>> \/ TrimSpace(stripped) = <<"-">>
                  THEN buf
                  ELSE buf \o bPrefix \o stripped \o <<NL>>
             ELSE buf \o stripped \o <<NL, NL>>

(***************************************************************************)
(* Structural Tree Walker and Table Renderer                               *)
(***************************************************************************)
RECURSIVE extractMarkdownContent(_, _, _, _)
RECURSIVE walkElement(_, _, _, _)
RECURSIVE processTable(_, _, _, _)
RECURSIVE tableCells(_, _, _)
RECURSIVE tableRows(_, _, _, _)

\* a separator of one column whatever the first row holds
headerSeparator_oneColumn(row) == <<"|">> \o <<SP, "-", "-", "-", SP, "|">> \o <<NL>>

\* the header separator written after the first row: " --- |" per cell of it
headerSeparator(row) ==
    <<"|">> \o Repeat(<<SP, "-", "-", "-", SP, "|">>, Len(row.TableCells)) \o <<NL>>

\* a cell text rendered with the headings one level further down
cellText_deeper(cell, lists, headingOffset) ==
    ReplaceAll(TrimSpace(extractMarkdownContent(<<>>, cell.Content, lists, headingOffset + 1)),
               NL, <<SP>>)

\* a cell text that keeps the newlines of the cell's Markdown
cellText_multiline(cell, lists, headingOffset) ==
    TrimSpace(extractMarkdownContent(<<>>, cell.Content, lists, headingOffset))

\* the text of one cell: the walker's output into a fresh builder, trimmed,
\* every newline replaced by a space
cellText(cell, lists, headingOffset) ==
    ReplaceAll(TrimSpace(extractMarkdownContent(<<>>, cell.Content, lists, headingOffset)),
               NL, <<SP>>)

\* the inner loop of processTable over row.TableCells
tableCells(cells, lists, headingOffset) ==
    IF cells = <<>> THEN <<>>
    ELSE <<SP>> \o cellText(Head(cells), lists, headingOffset) \o <<SP, "|">>
             \o tableCells(Tail(cells), lists, headingOffset)

\* the outer loop of processTable over table.TableRows, from row rowIdx (0-based)
tableRows(rows, rowIdx, lists, headingOffset) ==
    IF rowIdx >= Len(rows) THEN <<>>
    ELSE LET row == rows[rowIdx + 1]
         IN  <<"|">> \o tableCells(row.TableCells, lists, headingOffset) \o <<NL>>
                 \o (IF rowIdx = 0 THEN headerSeparator(row) ELSE <<>>)
                 \o tableRows(rows, rowIdx + 1, lists, headingOffset)

\* a table renderer whose cell walkers start from the contents of the outer
\* builder instead of an empty one
processTable_outerBuffer(buf, table, lists, headingOffset) ==
    IF table = Nil \/ Len(table.TableRows) = 0 THEN buf
    ELSE LET cell(c) ==
                 LET out == extractMarkdownContent(buf, c.Content, lists, headingOffset)
                 IN  ReplaceAll(TrimSpace(SubSeq(out, Len(buf) + 1, Len(out))), NL, <<SP>>)
             RECURSIVE cells(_)
             cells(cs) ==
                 IF cs = <<>> THEN <<>>
                 ELSE <<SP>> \o cell(Head(cs)) \o <<SP, "|">> \o cells(Tail(cs))
             RECURSIVE rows(_)
             rows(rowIdx) ==
                 IF rowIdx >= Len(table.TableRows) THEN <<>>
                 ELSE LET row == table.TableRows[rowIdx + 1]
                      IN  <<"|">> \o cells(row.TableCells) \o <<NL>>
                              \o (IF rowIdx = 0 THEN headerSeparator(row) ELSE <<>>)
                              \o rows(rowIdx + 1)
         IN  buf \o <<NL>> \o rows(0) \o <<NL>>

processTable(buf, table, lists, headingOffset) ==
    IF table = Nil \/ Len(table.TableRows) = 0 THEN buf
    ELSE buf \o <<NL>> \o tableRows(table.TableRows, 0, lists, headingOffset) \o <<NL>>

\* the rule "\n---\n\n" a section break writes
SectionRule == <<NL, "-", "-", "-", NL, NL>>

\* a loop body that writes the section rule whenever the builder is non-empty
walkElement_nonEmpty(buf, elem, lists, headingOffset) ==
    LET b1 == IF elem.Paragraph # Nil
              THEN processParagraph(buf, elem.Paragraph, lists, headingOffset)
              ELSE buf
        b2 == IF elem.Table # Nil
              THEN processTable(b1, elem.Table, lists, headingOffset)
              ELSE b1
    IN  IF elem.SectionBreak # Nil
        THEN IF Len(b2) > 0 THEN b2 \o SectionRule ELSE b2
        ELSE b2

\* the body of the walker's loop for one structural element
walkElement(buf, elem, lists, headingOffset) ==
    LET b1 == IF elem.Paragraph # Nil
              THEN processParagraph(buf, elem.Paragraph, lists, headingOffset)
              ELSE buf
        b2 == IF elem.Table # Nil
              THEN processTable(b1, elem.Table, lists, headingOffset)
              ELSE b1
    IN  IF elem.SectionBreak # Nil
        THEN IF Len(b2) > 0 /\ TrimSpace(b2) # <<>> THEN b2 \o SectionRule ELSE b2
        ELSE b2

extractMarkdownContent(buf, elements, lists, headingOffset) ==
    IF elements = <<>> THEN buf
    ELSE extractMarkdownContent(walkElement(buf, Head(elements), lists, headingOffset),
                                Tail(elements), lists, headingOffset)

(***************************************************************************)
(* Nil entries of the API's pointer slices.  Elements, NestingLevels,      *)
(* TableRows, TableCells and Content are slices of pointers; the loops     *)
(* read a field of each entry without testing the entry, and reading a     *)
(* field through a nil pointer panics.  These predicates say when a call   *)
(* panics; the rendering operators above are applied only when it does not.*)
(***************************************************************************)
\* the index expression NestingLevels[nestingLevel] without the length test
\* before it: a level beyond the slice panics as well
bulletPanics_noLengthTest(para, lists) ==
    /\ para.Bullet # Nil
    /\ lists # Nil
    /\ para.Bullet.ListId # ""
    /\ lookupList(lists, para.Bullet.ListId) # Nil
    /\ LET list == lookupList(lists, para.Bullet.ListId)
       IN  /\ list.ListProperties # Nil
           /\ \/ Len(list.ListProperties.NestingLevels) <= nestingLevelOf(para)
              \/ list.ListProperties.NestingLevels[nestingLevelOf(para) + 1] = Nil

\* nl.GlyphType of a nil entry of list.ListProperties.NestingLevels
bulletPanics(para, lists) ==
    /\ para.Bullet # Nil
    /\ lists # Nil
    /\ para.Bullet.ListId # ""
    /\ lookupList(lists, para.Bullet.ListId) # Nil
    /\ LET list == lookupList(lists, para.Bullet.ListId)
       IN  /\ list.ListProperties # Nil
           /\ Len(list.ListProperties.NestingLevels) > nestingLevelOf(para)
           /\ list.ListProperties.NestingLevels[nestingLevelOf(para) + 1] = Nil

\* processParagraph panics: on the bullet's level entry, or on e.TextRun of a
\* nil entry of para.Elements
paragraphPanics(para, lists) ==
    /\ para # Nil
    /\ \/ bulletPanics(para, lists)
       \/ \E i \in DOMAIN para.Elements : para.Elements[i] = Nil

RECURSIVE elementsPanic(_, _)
RECURSIVE elementPanics(_, _)

\* processTable panics: row.TableCells of a nil row, cell.Content of a nil
\* cell, or the walk of a cell's content
tablePanics(table, lists) ==
    /\ table # Nil
    /\ \E r \in DOMAIN table.TableRows :
          \/ table.TableRows[r] = Nil
          \/ \E c \in DOMAIN table.TableRows[r].TableCells :
                 \/ table.TableRows[r].TableCells[c] = Nil
                 \/ elementsPanic(table.TableRows[r].TableCells[c].Content, lists)

\* the body of the walker's loop panics: elem.Paragraph of a nil entry, or
\* the paragraph or table it goes on to process
elementPanics(elem, lists) ==
    \/ elem = Nil
    \/ elem.Paragraph # Nil /\ paragraphPanics(elem.Paragraph, lists)
    \/ elem.Table # Nil /\ tablePanics(elem.Table, lists)

elementsPanic(elements, lists) ==
    \E i \in DOMAIN elements : elementPanics(elements[i], lists)

\* what the inner loop of processTable has written for a row when the read of
\* cell.Content or the walk of a cell panics: the cells before that cell
RECURSIVE tableCellsPanicked(_, _, _)
tableCellsPanicked(cells, lists, headingOffset) ==
    IF cells = <<>> THEN <<>>
    ELSE IF Head(cells) = Nil \/ elementsPanic(Head(cells).Content, lists) THEN <<>>
    ELSE <<SP>> \o cellText(Head(cells), lists, headingOffset) \o <<SP, "|">>
             \o tableCellsPanicked(Tail(cells), lists, headingOffset)

\* what the outer loop of processTable has written when it panics: the rows
\* before the row that panics, then "|" and that row's cells so far
RECURSIVE tableRowsPanicked(_, _, _, _)
tableRowsPanicked(rows, rowIdx, lists, headingOffset) ==
    LET row == rows[rowIdx + 1]
    IN  IF row = Nil THEN <<"|">>
        ELSE IF \E c \in DOMAIN row.TableCells :
                    \/ row.TableCells[c] = Nil
                    \/ elementsPanic(row.TableCells[c].Content, lists)
        THEN <<"|">> \o tableCellsPanicked(row.TableCells, lists, headingOffset)
        ELSE <<"|">> \o tableCells(row.TableCells, lists, headingOffset) \o <<NL>>
                 \o (IF rowIdx = 0 THEN headerSeparator(row) ELSE <<>>)
                 \o tableRowsPanicked(rows, rowIdx + 1, lists, headingOffset)

\* the builder as processTable leaves it when it panics
processTablePanicked(buf, table, lists, headingOffset) ==
    buf \o <<NL>> \o tableRowsPanicked(table.TableRows, 0, lists, headingOffset)

\* the builder as the body of the walker's loop leaves it when it panics:
\* untouched when the entry is nil or its paragraph panics, else with the
\* paragraph and the part of the table written before the panic
walkElementPanicked(buf, elem, lists, headingOffset) ==
    IF elem = Nil THEN buf
    ELSE IF elem.Paragraph # Nil /\ paragraphPanics(elem.Paragraph, lists) THEN buf
    ELSE processTablePanicked(
             IF elem.Paragraph # Nil
             THEN processParagraph(buf, elem.Paragraph, lists, headingOffset)
             ELSE buf,
             elem.Table, lists, headingOffset)

(***************************************************************************)
(* SpecRun: formatTextRun applied to every bounded text run                *)
(***************************************************************************)
MaxRunLen == 3

RunAlphabet == {"a", SP, TAB, NL, CR, VT, EMDASH, IDEOSP}

Urls == {<<>>, <<"u">>}

Links == {Nil} \cup [Url : Urls]

TextStyles ==
    {Nil} \cup [Bold : BOOLEAN, Italic : BOOLEAN, Strikethrough : BOOLEAN, Link : Links]

TextRuns == [Content : StringsUpTo(RunAlphabet, MaxRunLen), TextStyle : TextStyles]

InitRun ==
    /\ pc = "call"
    /\ input \in [tr : {Nil} \cup TextRuns]
    /\ sb = <<>>
    /\ result = <<>>
    /\ pkg = Package
    /\ response = Nil

CallRun ==
    /\ pc = "call"
    /\ result' = formatTextRun(input.tr)
    /\ pc' = "done"
    /\ UNCHANGED <<input, sb, pkg, response>>

NextRun == CallRun

SpecRun == InitRun /\ [][NextRun]_vars

\* the run carries a link the formatter acts on
HasLink(tr) == tr.TextStyle # Nil /\ tr.TextStyle.Link # Nil /\ tr.TextStyle.Link.Url # <<>>

IsBold(tr) == tr.TextStyle # Nil /\ tr.TextStyle.Bold

IsItalic(tr) == tr.TextStyle # Nil /\ tr.TextStyle.Italic

IsStrikethrough(tr) == tr.TextStyle # Nil /\ tr.TextStyle.Strikethrough

Wrap(marker, str) == marker \o str \o marker

\* C7: for a run without a link whose text (after the vertical-tab and
\* typography replacements) has a non-empty trimmed core, the core is wrapped
\* in *** for bold and italic, ** for bold alone, * for italic alone, and
\* strikethrough wraps the already wrapped core in ~~; only whitespace stands
\* outside the markers; with none of the three set the text is returned as is.
C7_EmphasisMarkers ==
    (pc = "done" /\ input.tr # Nil /\ ~HasLink(input.tr)) =>
        LET tr == input.tr
            text == replaceTypography(tr.Content)
            core == TrimSpace(text)
            emphasised ==
                IF IsBold(tr) /\ IsItalic(tr) THEN Wrap(<<"*", "*", "*">>, core)
                ELSE IF IsBold(tr) THEN Wrap(<<"*", "*">>, core)
                ELSE IF IsItalic(tr) THEN Wrap(<<"*">>, core)
                ELSE core
            decorated ==
                IF IsStrikethrough(tr) THEN Wrap(<<"~", "~">>, emphasised) ELSE emphasised
        IN  core # <<>> =>
                IF IsBold(tr) \/ IsItalic(tr) \/ IsStrikethrough(tr)
                THEN TrimSpace(result) = decorated
                ELSE result = text

C7_Witness ==
    /\ pc = "done"
    /\ input.tr # Nil
    /\ ~HasLink(input.tr)
    /\ IsBold(input.tr) /\ IsItalic(input.tr) /\ IsStrikethrough(input.tr)
    /\ input.tr.Content = <<SP, "a", NL>>
    /\ result = <<SP, "~", "~", "*", "*", "*", "a", "*", "*", "*", "~", "~", NL>>

\* C8: for a run with a non-empty link URL whose text is not all whitespace the
\* result is "[" + trimmed core + "](" + url + ")" followed by the text's
\* trailing spaces, tabs and newlines; the leading whitespace is dropped.
C8_LinkKeepsTrailingOnly ==
    (pc = "done" /\ input.tr # Nil /\ HasLink(input.tr)) =>
        LET text == replaceTypography(input.tr.Content)
            core == TrimSpace(text)
            n == TrailingIn(text, {SP, TAB, NL})
            trailing == SubSeq(text, Len(text) - n + 1, Len(text))
        IN  core # <<>> =>
                result = <<"[">> \o core \o <<"]", "(">> \o input.tr.TextStyle.Link.Url
                             \o <<")">> \o trailing

C8_Witness ==
    /\ pc = "done"
    /\ input.tr # Nil
    /\ HasLink(input.tr)
    /\ input.tr.Content = <<SP, "a", NL>>
    /\ result = <<"[", "a", "]", "(", "u", ")", NL>>

\* the content with every vertical tab turned into two newlines
RECURSIVE BreakTabs(_)
BreakTabs(content) ==
    IF content = <<>> THEN <<>>
    ELSE (IF Head(content) = VT THEN <<NL, NL>> ELSE <<Head(content)>>)
             \o BreakTabs(Tail(content))

IsBlank(str) == \A i \in DOMAIN str : str[i] \in SpaceSet

\* C19: a run whose text is white space only comes back as that text, each
\* vertical tab replaced by two newlines, with no link brackets and no
\* emphasis or strikethrough markers, whatever its style says.
C19_BlankRunUndecorated ==
    (pc = "done" /\ input.tr # Nil /\ IsBlank(input.tr.Content)) =>
        /\ result = BreakTabs(input.tr.Content)
        /\ IsBlank(result)

C19_Witness ==
    /\ pc = "done"
    /\ input.tr # Nil
    /\ input.tr.Content = <<SP, VT, CR>>
    /\ HasLink(input.tr)
    /\ IsBold(input.tr) /\ IsStrikethrough(input.tr)
    /\ result = <<SP, NL, NL, CR>>

\* the core in the markers of the run's style
Decorated(core, tr) ==
    LET emphasised ==
            IF IsBold(tr) /\ IsItalic(tr) THEN Wrap(<<"*", "*", "*">>, core)
            ELSE IF IsBold(tr) THEN Wrap(<<"*", "*">>, core)
            ELSE IF IsItalic(tr) THEN Wrap(<<"*">>, core)
            ELSE core
    IN  IF IsStrikethrough(tr) THEN Wrap(<<"~", "~">>, emphasised) ELSE emphasised

\* C20: for a run without a link and with bold, italic or strikethrough set,
\* the result is leading + decorated core + trailing, where leading and
\* trailing are the white space at the ends of the run's text (after the
\* replacements) and leading + core + trailing is that text: taking the
\* markers away gives the text back, no character lost or moved.
C20_EmphasisKeepsText ==
    (/\ pc = "done"
     /\ input.tr # Nil
     /\ ~HasLink(input.tr)
     /\ IsBold(input.tr) \/ IsItalic(input.tr) \/ IsStrikethrough(input.tr)) =>
        LET text == replaceTypography(input.tr.Content)
        IN  \E i, j \in 0..Len(text) :
                /\ i <= j
                /\ IsBlank(SubSeq(text, 1, i))
                /\ IsBlank(SubSeq(text, j + 1, Len(text)))
                /\ result = SubSeq(text, 1, i)
                                \o (IF i = j THEN <<>>
                                    ELSE Decorated(SubSeq(text, i + 1, j), input.tr))
                                \o SubSeq(text, j + 1, Len(text))

Markers == {"*", "~"}

\* C21: a link takes precedence over emphasis: a run with a non-empty link
\* URL and non-blank text comes out as [core](url) and its trailing white
\* space, with no *, **, *** or ~~ marker, even when bold, italic or
\* strikethrough are set; a link whose URL is empty counts as no link and
\* the emphasis rules apply.
C21_LinkOverEmphasis ==
    (/\ pc = "done"
     /\ input.tr # Nil
     /\ input.tr.TextStyle # Nil
     /\ input.tr.TextStyle.Link # Nil
     /\ TrimSpace(replaceTypography(input.tr.Content)) # <<>>) =>
        LET core == TrimSpace(replaceTypography(input.tr.Content))
            url == input.tr.TextStyle.Link.Url
        IN  IF url # <<>>
            THEN /\ TrimSpace(result) = <<"[">> \o core \o <<"]", "(">> \o url \o <<")">>
                 /\ \A i \in DOMAIN result : result[i] \notin Markers
            ELSE TrimSpace(result) = Decorated(core, input.tr)

C21_Witness ==
    /\ pc = "done"
    /\ input.tr # Nil
    /\ input.tr.Content = <<"a", SP>>
    /\ HasLink(input.tr)
    /\ IsBold(input.tr) /\ IsItalic(input.tr) /\ IsStrikethrough(input.tr)
    /\ result = <<"[", "a", "]", "(", "u", ")", SP>>

(***************************************************************************)
(* SpecPara: processParagraph applied to every bounded paragraph           *)
(***************************************************************************)
MaxNesting == 2

MaxOffset == 2

Plain(content) == [TextRun |-> [Content |-> content, TextStyle |-> Nil]]

Bold(content) ==
    [TextRun |-> [Content |-> content,
                  TextStyle |-> [Bold |-> TRUE, Italic |-> FALSE,
                                 Strikethrough |-> FALSE, Link |-> Nil]]]

\* the element sequences of the paragraphs: no run, text, whitespace, the "-"
\* placeholder, several runs, an element without a text run, an empty run, a
\* nil entry, a line separator alone
ParaElements ==
    { <<>>,
      <<Plain(<<"a", NL>>)>>,
      <<Plain(<<SP, NL>>)>>,
      <<Plain(<<"-", NL>>)>>,
      <<Plain(<<SP, "-", SP, NL>>)>>,
      <<Bold(<<"a">>), Plain(<<SP, "a", NL>>)>>,
      <<[TextRun |-> Nil], Plain(<<"a">>)>>,
      <<Plain(<<"a", VT>>)>>,
      <<Plain(<<>>), Plain(<<SP, "a", NL>>)>>,
      <<Nil, Plain(<<"a", NL>>)>>,
      <<Plain(<<LSEP>>)>> }

NamedStyleTypes ==
    {"NORMAL_TEXT", "TITLE", "HEADING_1", "HEADING_2", "HEADING_3", "HEADING_4",
     "HEADING_5", "HEADING_6"}

ParagraphStyles == {Nil} \cup [NamedStyleType : NamedStyleTypes]

ListIds == {"", "ordered", "mixed", "short", "noprops", "holes", "unknown"}

Bullets == {Nil} \cup [ListId : ListIds, NestingLevel : 0..MaxNesting]

Paragraphs == [ParagraphStyle : ParagraphStyles, Bullet : Bullets, Elements : ParaElements]

Glyph(type) == [GlyphType |-> type]

\* the list catalog of a tab: every ordered glyph type, other glyph types, a
\* list with a single level, a list without properties, a list whose first
\* level is a nil entry
TheLists ==
    [entries |->
        { [ListId |-> "ordered",
           List |-> [ListProperties |->
                        [NestingLevels |-> <<Glyph("DECIMAL"), Glyph("ALPHA"), Glyph("ROMAN"),
                                             Glyph("DECIMAL")>>]]],
          [ListId |-> "mixed",
           List |-> [ListProperties |->
                        [NestingLevels |-> <<Glyph("GLYPH_TYPE_UNSPECIFIED"), Glyph("DECIMAL"),
                                             Glyph("UPPER_ALPHA"), Glyph("NONE")>>]]],
          [ListId |-> "short",
           List |-> [ListProperties |-> [NestingLevels |-> <<Glyph("ROMAN")>>]]],
          [ListId |-> "noprops", List |-> [ListProperties |-> Nil]],
          [ListId |-> "holes",
           List |-> [ListProperties |-> [NestingLevels |-> <<Nil, Glyph("DECIMAL")>>]]] }]

EmptyLists == [entries |-> {}]

Catalogs == {Nil, EmptyLists, TheLists}

\* builder contents a paragraph can follow: nothing, an empty paragraph, a
\* plain paragraph, a bullet item
Buffers == { <<>>, <<NL>>, <<"a", NL, NL>>, <<"-", SP, "a", NL>> }

InitPara ==
    /\ pc = "call"
    /\ input \in [para : Paragraphs, lists : Catalogs, headingOffset : 0..MaxOffset]
    /\ sb \in Buffers
    /\ result = sb
    /\ pkg = Package
    /\ response = Nil

CallPara ==
    /\ pc = "call"
    /\ IF paragraphPanics(input.para, input.lists)
       THEN /\ pc' = "panic"
            /\ sb' = sb
       ELSE /\ pc' = "done"
            /\ sb' = processParagraph(sb, input.para, input.lists, input.headingOffset)
    /\ UNCHANGED <<input, result, pkg, response>>

NextPara == CallPara

SpecPara == InitPara /\ [][NextPara]_vars

\* what the call appended: result holds the builder's contents before the call
Written == SubSeq(sb, Len(result) + 1, Len(sb))

StartsWith(str, prefix) == Len(str) >= Len(prefix) /\ SubSeq(str, 1, Len(prefix)) = prefix

\* the level the claim gives a heading classification
ClaimedLevel(para) ==
    IF para.ParagraphStyle = Nil THEN 0
    ELSE LET type == para.ParagraphStyle.NamedStyleType
         IN  IF type \in {"TITLE", "HEADING_1"} THEN 1
             ELSE IF type = "HEADING_2" THEN 2
             ELSE IF type = "HEADING_3" THEN 3
             ELSE IF type = "HEADING_4" THEN 4
             ELSE IF type = "HEADING_5" THEN 5
             ELSE IF type = "HEADING_6" THEN 6
             ELSE 0

HasContent(para) == TrimSpace(paraContent(para.Elements)) # <<>>

\* C4: a paragraph with non-whitespace content whose heading classification
\* maps to level L is written, at heading offset O, as a line of exactly
\* min(L+O, 6) '#' characters, one space, and the content.
C4_HeadingPrefix ==
    (pc = "done" /\ ClaimedLevel(input.para) > 0 /\ HasContent(input.para)) =>
        LET hashes == Min(ClaimedLevel(input.para) + input.headingOffset, 6)
            line == TrimLeft(Written, {NL})
        IN  /\ StartsWith(sb, result)
            /\ Len(Written) - Len(line) <= 1
            /\ LeadingIn(line, {"#"}) = hashes
            /\ SubSeq(line, hashes + 1, Len(line)) =
                   <<SP>> \o TrimSuffix(paraContent(input.para.Elements), <<NL>>) \o <<NL, NL>>

C4_Witness ==
    /\ pc = "done"
    /\ input.para.ParagraphStyle # Nil
    /\ input.para.ParagraphStyle.NamedStyleType = "HEADING_5"
    /\ input.headingOffset = 2
    /\ input.para.Elements = <<Plain(<<"a", NL>>)>>
    /\ Written = <<NL, "#", "#", "#", "#", "#", "#", SP, "a", NL, NL>>

\* the paragraph is rendered as a list item: it carries bullet info, has no
\* heading classification, and its content is neither blank nor the "-" placeholder
IsListItem(para) ==
    /\ para.Bullet # Nil
    /\ ClaimedLevel(para) = 0
    /\ HasContent(para)
    /\ TrimSpace(paraContent(para.Elements)) # <<"-">>

ListMarkers == { <<"-", SP>>, <<"1", ".", SP>> }

\* C5 as stated: every paragraph carrying bullet info at nesting level N is
\* written as a line of 2*N spaces immediately followed by the list marker.
C5_AsStated ==
    (pc = "done" /\ input.para.Bullet # Nil /\ HasContent(input.para) /\ Written # <<>>) =>
        \E marker \in ListMarkers :
            StartsWith(Written, Repeat(<<SP>>, 2 * input.para.Bullet.NestingLevel) \o marker)

\* C5, amended: a paragraph carrying bullet info at nesting level N that has
\* no heading classification and whose content is neither blank nor the "-"
\* placeholder is written as a line of exactly 2*N spaces immediately
\* followed by the list marker.
C5_BulletIndent ==
    (pc = "done" /\ IsListItem(input.para)) =>
        /\ StartsWith(sb, result)
        /\ \E marker \in ListMarkers :
               StartsWith(Written, Repeat(<<SP>>, 2 * input.para.Bullet.NestingLevel) \o marker)

C5_Witness ==
    /\ pc = "done"
    /\ IsListItem(input.para)
    /\ input.para.Bullet.NestingLevel = 2
    /\ input.para.Elements = <<Plain(<<"a", NL>>)>>
    /\ Written = <<SP, SP, SP, SP, "-", SP, "a", NL>>

\* the claim's condition for an ordered marker: the list-id is a key of the
\* catalog, the list has an entry at the nesting level, of an ordered glyph type
ClaimedOrdered(para, lists) ==
    /\ lists # Nil
    /\ para.Bullet.ListId # ""
    /\ \E e \in lists.entries :
          /\ e.ListId = para.Bullet.ListId
          /\ e.List.ListProperties # Nil
          /\ para.Bullet.NestingLevel + 1 \in DOMAIN e.List.ListProperties.NestingLevels
          /\ e.List.ListProperties.NestingLevels[para.Bullet.NestingLevel + 1].GlyphType
                 \in {"DECIMAL", "ALPHA", "ROMAN"}

\* C6: the marker of a list item is "1. " exactly when its list-id is in the
\* catalog, the list has an entry at the item's nesting level and the entry's
\* glyph type is DECIMAL, ALPHA or ROMAN; in every other case it is "- ".
C6_OrderedMarker ==
    (pc = "done" /\ IsListItem(input.para)) =>
        LET marked == TrimLeft(Written, {SP})
        IN  IF ClaimedOrdered(input.para, input.lists)
            THEN StartsWith(marked, <<"1", ".", SP>>)
            ELSE StartsWith(marked, <<"-", SP>>)

C6_Witness ==
    /\ pc = "done"
    /\ IsListItem(input.para)
    /\ input.lists = TheLists
    /\ input.para.Bullet = [ListId |-> "mixed", NestingLevel |-> 1]
    /\ input.para.Elements = <<Plain(<<"a", NL>>)>>
    /\ Written = <<SP, SP, "1", ".", SP, "a", NL>>

\* C11: a paragraph whose concatenated run output is empty or whitespace
\* only, whatever its heading classification or bullet info, writes no '#',
\* no list marker and no content: it appends exactly one newline when the
\* buffer does not already end with two newlines, and nothing otherwise.
C11_BlankParagraph ==
    (pc = "done" /\ ~HasContent(input.para)) =>
        sb = IF HasSuffix(result, <<NL, NL>>) THEN result ELSE result \o <<NL>>

C11_Witness ==
    /\ pc = "done"
    /\ input.para.Elements = <<Plain(<<SP, NL>>)>>
    /\ ClaimedLevel(input.para) = 3
    /\ input.para.Bullet = [ListId |-> "ordered", NestingLevel |-> 1]
    /\ input.lists = TheLists
    /\ result = <<"-", SP, "a", NL>>
    /\ sb = <<"-", SP, "a", NL, NL>>

\* the catalog gives the bullet no list entry at its nesting level: no
\* catalog, no such list-id, no list properties, or too few levels
NoLevelEntry(para, lists) ==
    \/ lists = Nil
    \/ \A e \in lists.entries :
          \/ e.ListId # para.Bullet.ListId
          \/ e.List.ListProperties = Nil
          \/ Len(e.List.ListProperties.NestingLevels) <= para.Bullet.NestingLevel

\* no slice the paragraph's rendering reads holds a nil entry
NoNilEntry(para, lists) ==
    /\ \A i \in DOMAIN para.Elements : para.Elements[i] # Nil
    /\ (para.Bullet # Nil /\ ~NoLevelEntry(para, lists)) =>
          \A e \in lists.entries :
              e.ListId = para.Bullet.ListId =>
                  e.List.ListProperties.NestingLevels[para.Bullet.NestingLevel + 1] # Nil

\* C14: malformed or partially absent input has no error or crash outcome:
\* a paragraph with no paragraph style, with no bullet info, with a nil or
\* empty list catalog, with a list-id the catalog lacks, with a list without
\* list properties, or with a nesting level beyond the list's levels is
\* rendered to completion with the fallback: no heading prefix, and the
\* unordered "- " marker.
C14_MalformedRendered ==
    (pc # "call" /\ NoNilEntry(input.para, input.lists)) =>
        LET para == input.para
            text == TrimSuffix(paraContent(para.Elements), <<NL>>)
        IN  /\ pc = "done"
            /\ StartsWith(sb, result)
            /\ (para.ParagraphStyle = Nil /\ HasContent(para)) => ~StartsWith(Written, <<"#">>)
            /\ (para.ParagraphStyle = Nil /\ para.Bullet = Nil /\ HasContent(para)) =>
                  Written = text \o <<NL, NL>>
            /\ (IsListItem(para) /\ NoLevelEntry(para, input.lists)) =>
                  Written = Repeat(<<SP>>, 2 * para.Bullet.NestingLevel)
                                \o <<"-", SP>> \o text \o <<NL>>

C14_Witness ==
    /\ pc = "done"
    /\ input.para = [ParagraphStyle |-> Nil,
                     Bullet |-> [ListId |-> "short", NestingLevel |-> 2],
                     Elements |-> <<Plain(<<"a", NL>>)>>]
    /\ input.lists = TheLists
    /\ result = <<>>
    /\ sb = <<SP, SP, SP, SP, "-", SP, "a", NL>>

\* C23: a bullet paragraph without heading classification whose content,
\* less one trailing newline and trimmed, is exactly "-" is discarded: the
\* buffer stays as it was; every other such paragraph with non-blank content
\* appends exactly its bullet prefix, the content less one trailing newline,
\* and one newline.
C23_PlaceholderDiscarded ==
    (/\ pc = "done"
     /\ input.para.Bullet # Nil
     /\ ClaimedLevel(input.para) = 0
     /\ HasContent(input.para)) =>
        LET text == TrimSuffix(paraContent(input.para.Elements), <<NL>>)
            prefix == Repeat(<<SP>>, 2 * input.para.Bullet.NestingLevel)
                          \o (IF ClaimedOrdered(input.para, input.lists)
                              THEN <<"1", ".", SP>>
                              ELSE <<"-", SP>>)
        IN  IF TrimSpace(text) = <<"-">>
            THEN sb = result
            ELSE sb = result \o prefix \o text \o <<NL>>

C23_Witness ==
    /\ pc = "done"
    /\ input.para.Bullet = [ListId |-> "ordered", NestingLevel |-> 1]
    /\ input.para.ParagraphStyle = Nil
    /\ input.para.Elements = <<Plain(<<SP, "-", SP, NL>>)>>
    /\ input.lists = TheLists
    /\ result = <<"-", SP, "a", NL>>
    /\ sb = result

\* C24: a paragraph with non-blank content that has both a heading
\* classification and bullet info is written as a heading: heading prefix,
\* content, two newlines, with no indentation and no "- " or "1. " marker,
\* and the "-" placeholder is not discarded.
C24_HeadingWinsOverBullet ==
    (/\ pc = "done"
     /\ input.para.Bullet # Nil
     /\ ClaimedLevel(input.para) > 0
     /\ HasContent(input.para)) =>
        LET hashes == Min(ClaimedLevel(input.para) + input.headingOffset, 6)
            text == TrimSuffix(paraContent(input.para.Elements), <<NL>>)
            line == TrimLeft(Written, {NL})
        IN  /\ StartsWith(sb, result)
            /\ Len(Written) - Len(line) <= 1
            /\ line = Repeat(<<"#">>, hashes) \o <<SP>> \o text \o <<NL, NL>>

C24_Witness ==
    /\ pc = "done"
    /\ input.para.Bullet = [ListId |-> "ordered", NestingLevel |-> 2]
    /\ input.para.ParagraphStyle = [NamedStyleType |-> "TITLE"]
    /\ input.para.Elements = <<Plain(<<"-", NL>>)>>
    /\ input.lists = TheLists
    /\ input.headingOffset = 0
    /\ result = <<>>
    /\ sb = <<"#", SP, "-", NL, NL>>

(***************************************************************************)
(* SpecTable: processTable applied to every bounded table                  *)
(***************************************************************************)
MaxRows == 2

MaxCols == 2

ParaElem(para) == [Paragraph |-> para, Table |-> Nil, SectionBreak |-> Nil]

TableElem(table) == [Paragraph |-> Nil, Table |-> table, SectionBreak |-> Nil]

BreakElem == [Paragraph |-> Nil, Table |-> Nil, SectionBreak |-> [SectionStyle |-> Nil]]

Text(content) ==
    [ParagraphStyle |-> [NamedStyleType |-> "NORMAL_TEXT"], Bullet |-> Nil,
     Elements |-> <<Plain(content)>>]

Heading(type, content) ==
    [ParagraphStyle |-> [NamedStyleType |-> type], Bullet |-> Nil,
     Elements |-> <<Plain(content)>>]

Item(listId, level, content) ==
    [ParagraphStyle |-> [NamedStyleType |-> "NORMAL_TEXT"],
     Bullet |-> [ListId |-> listId, NestingLevel |-> level],
     Elements |-> <<Plain(content)>>]

OneCellTable(content) ==
    [TableRows |-> << [TableCells |-> << [Content |-> content] >>] >>]

\* what a cell can hold: nothing, one paragraph, two paragraphs, a heading,
\* a section break before any text, list items, a nested table
CellContents ==
    { <<>>,
      <<ParaElem(Text(<<"A", NL>>))>>,
      <<ParaElem(Text(<<"B", NL>>))>>,
      <<ParaElem(Text(<<"a", NL>>)), ParaElem(Text(<<SP, NL>>)), ParaElem(Text(<<"a", VT, "a", NL>>))>>,
      <<ParaElem(Text(<<NL>>)), BreakElem, ParaElem(Heading("HEADING_2", <<"a", NL>>)), BreakElem>>,
      <<ParaElem(Item("ordered", 1, <<"a", NL>>)), ParaElem(Item("mixed", 0, <<"a", NL>>))>>,
      <<TableElem(OneCellTable(<<ParaElem(Text(<<"A", NL>>))>>))>> }

\* sequences of at most n row lengths, each at most MaxCols
RECURSIVE RowLengths(_)
RowLengths(n) ==
    IF n = 0 THEN {<<>>}
    ELSE LET shorter == RowLengths(n - 1)
         IN  shorter \cup {Append(w, c) : w \in {v \in shorter : Len(v) = n - 1}, c \in 0..MaxCols}

\* the table with rows of the given lengths whose cells hold, alternately, c1 and c2
MakeTable(lengths, c1, c2) ==
    [TableRows |->
        [r \in 1..Len(lengths) |->
            [TableCells |->
                [c \in 1..lengths[r] |->
                    [Content |-> IF (r + c) % 2 = 0 THEN c1 ELSE c2]]]]]

\* the bounded tables, a table whose only row is a nil entry, and a table
\* whose cell holds a nil element
Tables ==
    {Nil, [TableRows |-> <<Nil>>], OneCellTable(<<Nil>>)}
        \cup {MakeTable(lengths, c1, c2) :
                  lengths \in RowLengths(MaxRows), c1 \in CellContents, c2 \in CellContents}

InitTable ==
    /\ pc = "call"
    /\ input \in [table : Tables, lists : {TheLists}, headingOffset : {0, MaxOffset}]
    /\ sb \in Buffers
    /\ result = sb
    /\ pkg = Package
    /\ response = Nil

CallTable ==
    /\ pc = "call"
    /\ IF tablePanics(input.table, input.lists)
       THEN /\ pc' = "panic"
            /\ sb' = processTablePanicked(sb, input.table, input.lists, input.headingOffset)
       ELSE /\ pc' = "done"
            /\ sb' = processTable(sb, input.table, input.lists, input.headingOffset)
    /\ UNCHANGED <<input, result, pkg, response>>

NextTable == CallTable

SpecTable == InitTable /\ [][NextTable]_vars

\* the line the claim gives row r of the table
ClaimedRow(row, lists, headingOffset) ==
    <<"|">>
        \o Concat([c \in 1..Len(row.TableCells) |->
                      <<SP>> \o cellText(row.TableCells[c], lists, headingOffset) \o <<SP, "|">>])
        \o <<NL>>

ClaimedSeparator(row) ==
    <<"|">> \o Concat([c \in 1..Len(row.TableCells) |-> <<SP, "-", "-", "-", SP, "|">>])
        \o <<NL>>

\* C9: a table of R >= 1 rows appends one newline, then per row "|" followed by
\* " " + cellText + " |" per cell and a newline, with, right after the first
\* row, a separator line of "|" and one " --- |" per cell of the first row, and
\* one more newline after the last row; a table without rows appends nothing.
C9_TableLayout ==
    pc = "done" =>
        /\ StartsWith(sb, result)
        /\ IF input.table = Nil \/ input.table.TableRows = <<>>
           THEN sb = result
           ELSE LET rows == input.table.TableRows
                IN  Written =
                        <<NL>>
                        \o Concat([r \in 1..Len(rows) |->
                                ClaimedRow(rows[r], input.lists, input.headingOffset)
                                    \o (IF r = 1 THEN ClaimedSeparator(rows[1]) ELSE <<>>)])
                        \o <<NL>>

C9_Witness ==
    /\ pc = "done"
    /\ input.table =
           MakeTable(<<2, 2>>, <<ParaElem(Text(<<"A", NL>>))>>, <<ParaElem(Text(<<"B", NL>>))>>)
    /\ Written =
           <<NL, "|", SP, "A", SP, "|", SP, "B", SP, "|", NL,
             "|", SP, "-", "-", "-", SP, "|", SP, "-", "-", "-", SP, "|", NL,
             "|", SP, "B", SP, "|", SP, "A", SP, "|", NL, NL>>

\* number of newlines in a string
RECURSIVE CountNewlines(_)
CountNewlines(str) ==
    IF str = <<>> THEN 0
    ELSE (IF Head(str) = NL THEN 1 ELSE 0) + CountNewlines(Tail(str))

\* C25: table cells are single-line: for a table of R >= 1 rows, whatever its
\* cells hold, the appended text is one newline, exactly R+1 lines each
\* ended by a newline (the rows and the separator after the first), and one
\* newline; no cell's text holds a newline, and no cell's text begins or
\* ends with white space.
C25_SingleLineCells ==
    (pc = "done" /\ input.table # Nil /\ Len(input.table.TableRows) >= 1) =>
        LET rows == input.table.TableRows
        IN  /\ StartsWith(sb, result)
            /\ Written[1] = NL
            /\ HasSuffix(Written, <<NL, NL>>)
            /\ CountNewlines(Written) = Len(rows) + 3
            /\ \A r \in DOMAIN rows : \A c \in DOMAIN rows[r].TableCells :
                   LET text == cellText(rows[r].TableCells[c], input.lists, input.headingOffset)
                   IN  /\ CountNewlines(text) = 0
                       /\ text = <<>> \/ (text[1] \notin SpaceSet
                                            /\ text[Len(text)] \notin SpaceSet)

C25_Witness ==
    /\ pc = "done"
    /\ input.table =
           MakeTable(<<1, 2>>,
                     <<ParaElem(Text(<<"a", NL>>)), ParaElem(Text(<<SP, NL>>)),
                       ParaElem(Text(<<"a", VT, "a", NL>>))>>,
                     <<TableElem(OneCellTable(<<ParaElem(Text(<<"A", NL>>))>>))>>)
    /\ CountNewlines(Written) = 5

\* a cell that opens with an empty paragraph and a section break
BreakFirstCell ==
    <<ParaElem(Text(<<NL>>)), BreakElem, ParaElem(Heading("HEADING_2", <<"a", NL>>)), BreakElem>>

\* C30: the text processTable appends depends on the table, the catalog and
\* the heading offset only, never on the outer buffer: it is the text the
\* same table appends to an empty buffer. Each cell is rendered into a fresh
\* buffer, so a section break that is the first non-blank element of a cell
\* is dropped and an empty paragraph of a cell is spaced relative to the
\* cell alone, also when the outer buffer holds text.
C30_CellsIgnoreOuterBuffer ==
    (pc = "done" /\ input.table # Nil /\ Len(input.table.TableRows) >= 1) =>
        /\ sb = result \o processTable(<<>>, input.table, input.lists, input.headingOffset)
        /\ (/\ Len(input.table.TableRows[1].TableCells) >= 1
             /\ input.table.TableRows[1].TableCells[1].Content = BreakFirstCell) =>
                StartsWith(Written,
                           <<NL, "|", SP>> \o Repeat(<<"#">>, 2 + input.headingOffset)
                               \o <<SP, "a", SP, SP, SP, "-", "-", "-", SP, "|">>)

C30_Witness ==
    /\ pc = "done"
    /\ input.table = OneCellTable(BreakFirstCell)
    /\ input.headingOffset = 0
    /\ result = <<"a", NL, NL>>
    /\ sb = <<"a", NL, NL, NL, "|", SP, "#", "#", SP, "a", SP, SP, SP, "-", "-", "-", SP, "|", NL,
              "|", SP, "-", "-", "-", SP, "|", NL, NL>>

(***************************************************************************)
(* SpecWalk: the loop of extractMarkdownContent, one structural element a  *)
(* step, over every sequence of at most MaxElems elements                  *)
(***************************************************************************)
MaxElems == 3

\* an element with no variant populated
EmptyElem == [Paragraph |-> Nil, Table |-> Nil, SectionBreak |-> Nil]

\* the entries of a content slice: a nil entry, an element without variant,
\* plain, blank and heading paragraphs, list items, a "-" placeholder item, a
\* heading that is a list item, a paragraph without style or runs, tables
\* with and without rows, a section break, an element with two variants, a
\* table with a nil row, a paragraph with a table whose second cell panics
WalkElements ==
    { Nil,
      EmptyElem,
      ParaElem(Text(<<"a", NL>>)),
      ParaElem(Text(<<SP, NL>>)),
      ParaElem(Heading("HEADING_2", <<"a", NL>>)),
      ParaElem(Item("ordered", 0, <<"a", NL>>)),
      ParaElem(Item("unknown", 1, <<"a", NL>>)),
      ParaElem(Item("", 0, <<"-", NL>>)),
      ParaElem([Heading("HEADING_1", <<"a", NL>>) EXCEPT
                    !.Bullet = [ListId |-> "ordered", NestingLevel |-> 0]]),
      ParaElem([ParagraphStyle |-> Nil, Bullet |-> Nil, Elements |-> <<>>]),
      TableElem(OneCellTable(<<ParaElem(Text(<<"A", NL>>))>>)),
      TableElem([TableRows |-> <<>>]),
      BreakElem,
      [BreakElem EXCEPT !.Paragraph = Text(<<"a", NL>>)],
      TableElem([TableRows |-> <<Nil>>]),
      [ParaElem(Text(<<"a", NL>>)) EXCEPT
           !.Table = MakeTable(<<2>>, <<ParaElem(Text(<<"A", NL>>))>>, <<Nil>>)] }

InitWalk ==
    /\ pc = "walk"
    /\ input \in [elements : {<<>>}, lists : {TheLists}, headingOffset : {0, MaxOffset}]
    /\ sb = <<>>
    /\ result = <<>>
    /\ pkg = Package
    /\ response = Nil

\* one iteration of the loop: elem is the next entry of the slice; result
\* keeps the builder's contents before the iteration
LoopBody(elem) ==
    /\ pc = "walk"
    /\ Len(input.elements) < MaxElems
    /\ input' = [input EXCEPT !.elements = Append(@, elem)]
    /\ IF elementPanics(elem, input.lists)
       THEN /\ pc' = "panic"
            /\ result' = sb
            /\ sb' = walkElementPanicked(sb, elem, input.lists, input.headingOffset)
       ELSE /\ pc' = "walk"
            /\ result' = sb
            /\ sb' = walkElement(sb, elem, input.lists, input.headingOffset)
    /\ UNCHANGED <<pkg, response>>

NextWalk == \E elem \in WalkElements : LoopBody(elem)

SpecWalk == InitWalk /\ [][NextWalk]_vars

\* the entry the last iteration processed
LastElem == input.elements[Len(input.elements)]

HasNonSpace(str) == \E i \in DOMAIN str : str[i] \notin SpaceSet

\* C12: a section break appends exactly "\n---\n\n" when the buffer at that
\* moment holds at least one character that is not white space, and leaves
\* the buffer unchanged when it is empty or white space only.
C12_SectionRule ==
    (pc = "walk" /\ input.elements # <<>> /\ LastElem.SectionBreak # Nil) =>
        LET atBreak == walkElement(result, [LastElem EXCEPT !.SectionBreak = Nil],
                                   input.lists, input.headingOffset)
        IN  sb = IF HasNonSpace(atBreak)
                 THEN atBreak \o <<NL, "-", "-", "-", NL, NL>>
                 ELSE atBreak

C12_Witness ==
    /\ pc = "walk"
    /\ input.elements = <<BreakElem, ParaElem(Text(<<"a", NL>>)), BreakElem>>
    /\ result = <<"a", NL, NL>>
    /\ sb = <<"a", NL, NL, NL, "-", "-", "-", NL, NL>>

\* the entry is there and has a variant populated
IsPresent(elem) ==
    /\ elem # Nil
    /\ elem.Paragraph # Nil \/ elem.Table # Nil \/ elem.SectionBreak # Nil

\* C13: the walker skips absent elements silently: for any element sequence
\* holding nil entries or elements with no variant populated it completes
\* without failure, writes nothing for them, and renders the remaining
\* elements exactly as if the absent ones were not in the sequence.
C13_SkipsAbsent ==
    /\ pc # "panic"
    /\ (input.elements # <<>> /\ ~IsPresent(LastElem)) => sb = result
    /\ sb = extractMarkdownContent(<<>>, SelectSeq(input.elements, IsPresent),
                                   input.lists, input.headingOffset)

\* the last iteration rendered a heading: a paragraph with a heading
\* classification and non-blank content
LastIsHeading ==
    /\ pc = "walk"
    /\ input.elements # <<>>
    /\ LastElem.Paragraph # Nil
    /\ ClaimedLevel(LastElem.Paragraph) > 0
    /\ HasContent(LastElem.Paragraph)

\* C22: after any sequence of structural elements, a heading line starts at
\* position 0 of the buffer or right after two consecutive newlines,
\* whatever was written before it (plain paragraph, list item, table,
\* section break, empty paragraph), and is followed by two newlines.
C22_HeadingSpacing ==
    LastIsHeading =>
        LET start == Len(result) + LeadingIn(Written, {NL})
            line == SubSeq(sb, start + 1, Len(sb))
            hashes == LeadingIn(line, {"#"})
            text == TrimSuffix(paraContent(LastElem.Paragraph.Elements), <<NL>>)
        IN  /\ StartsWith(sb, result)
            /\ start = 0 \/ (start >= 2 /\ sb[start] = NL /\ sb[start - 1] = NL)
            /\ hashes > 0
            /\ StartsWith(SubSeq(line, hashes + 1, Len(line)), <<SP>> \o text \o <<NL, NL>>)

C22_Witness ==
    /\ pc = "walk"
    /\ input.headingOffset = 0
    /\ input.elements = << ParaElem(Item("ordered", 0, <<"a", NL>>)),
                           ParaElem(Heading("HEADING_2", <<"a", NL>>)) >>
    /\ sb = <<"1", ".", SP, "a", NL, NL, "#", "#", SP, "a", NL, NL>>

\* the output of the walker for the entries k+1.. of the slice, run on a
\* builder that holds the output for the entries 1..k
WalkFrom(k) ==
    LET b == extractMarkdownContent(<<>>, SubSeq(input.elements, 1, k),
                                    input.lists, input.headingOffset)
    IN  [before |-> b,
         after |-> extractMarkdownContent(b, SubSeq(input.elements, k + 1, Len(input.elements)),
                                          input.lists, input.headingOffset)]

\* C26: the walker and the renderers only append: the buffer after each
\* paragraph, table or section-break step starts with the buffer before
\* the step, and the buffer after the walker has run over any element
\* sequence starts with the buffer b it was given.
C26_AppendOnly ==
    pc = "walk" =>
        /\ StartsWith(sb, result)
        /\ \A k \in 0..Len(input.elements) :
               /\ StartsWith(WalkFrom(k).after, WalkFrom(k).before)
               /\ WalkFrom(k).after = sb

C26_Witness ==
    /\ pc = "walk"
    /\ input.elements = << ParaElem(Text(<<SP, NL>>)),
                           ParaElem(Heading("HEADING_2", <<"a", NL>>)),
                           BreakElem >>
    /\ result = <<NL, NL, "#", "#", SP, "a", NL, NL>>
    /\ sb = result \o SectionRule

\* C27: starting from an empty buffer, after any sequence of structural
\* elements the buffer is empty or ends with a newline.
C27_EndsWithNewline ==
    pc = "walk" => (sb = <<>> \/ sb[Len(sb)] = NL)

C27_Witness ==
    /\ pc = "walk"
    /\ input.elements = << ParaElem(Text(<<"a", NL>>)),
                           TableElem(OneCellTable(<<ParaElem(Text(<<"A", NL>>))>>)),
                           ParaElem(Item("unknown", 1, <<"a", NL>>)) >>
    /\ sb[Len(sb)] = NL
    /\ sb[Len(sb) - 1] = "a"

(***************************************************************************)
(* Tab Collector                                                           *)
(***************************************************************************)
\* a fragment whose Markdown is the builder's contents as written
tabContent_raw(tab, docTitle) ==
    [TabID |-> tab.TabProperties.TabId,
     TabTitle |-> IF tab.TabProperties.Title = <<>> THEN docTitle ELSE tab.TabProperties.Title,
     TabMarkdown |->
         IF tab.DocumentTab.Body # Nil
         THEN extractMarkdownContent(<<>>, tab.DocumentTab.Body.Content,
                                     tab.DocumentTab.Lists, 0)
         ELSE <<>>]

\* the DocsTabContent of one tab
tabContent(tab, docTitle) ==
    [TabID |-> tab.TabProperties.TabId,
     TabTitle |-> IF tab.TabProperties.Title = <<>> THEN docTitle ELSE tab.TabProperties.Title,
     TabMarkdown |->
         normalizeNewlines(
             IF tab.DocumentTab.Body # Nil
             THEN extractMarkdownContent(<<>>, tab.DocumentTab.Body.Content,
                                         tab.DocumentTab.Lists, 0)
             ELSE <<>>)]

\* a slice of fragments: Nil for the nil slice, else its elements
sliceElems(slice) == IF slice = Nil THEN <<>> ELSE slice.elems

\* append(slice, elems...): a nil slice stays nil when nothing is appended
appendSlice(slice, elems) ==
    IF elems = <<>> THEN slice ELSE [elems |-> sliceElems(slice) \o elems]

\* a collector that appends a tab's own fragment after those of its child tabs
RECURSIVE collectAllTabs_childrenFirst(_, _)
collectAllTabs_childrenFirst(tabs, docTitle) ==
    IF tabs = <<>> THEN Nil
    ELSE LET tab == Head(tabs)
             own == IF tab.TabProperties # Nil /\ tab.DocumentTab # Nil
                    THEN <<tabContent(tab, docTitle)>>
                    ELSE <<>>
             children == IF Len(tab.ChildTabs) > 0
                         THEN sliceElems(collectAllTabs_childrenFirst(tab.ChildTabs, docTitle))
                         ELSE <<>>
         IN  appendSlice(appendSlice(appendSlice(Nil, children), own),
                         sliceElems(collectAllTabs_childrenFirst(Tail(tabs), docTitle)))

\* a collector that passes over the child tabs of a tab it skips
RECURSIVE collectAllTabs_skipSubtree(_, _)
collectAllTabs_skipSubtree(tabs, docTitle) ==
    IF tabs = <<>> THEN Nil
    ELSE LET tab == Head(tabs)
             own == IF tab.TabProperties # Nil /\ tab.DocumentTab # Nil
                    THEN <<tabContent(tab, docTitle)>>
                    ELSE <<>>
             children == IF own # <<>> /\ Len(tab.ChildTabs) > 0
                         THEN sliceElems(collectAllTabs_skipSubtree(tab.ChildTabs, docTitle))
                         ELSE <<>>
         IN  appendSlice(appendSlice(appendSlice(Nil, own), children),
                         sliceElems(collectAllTabs_skipSubtree(Tail(tabs), docTitle)))

\* a collector that hands a tab's title to its child tabs as their fallback
RECURSIVE collectAllTabs_parentTitle(_, _)
collectAllTabs_parentTitle(tabs, docTitle) ==
    IF tabs = <<>> THEN Nil
    ELSE LET tab == Head(tabs)
             title == IF tab.TabProperties # Nil /\ tab.TabProperties.Title # <<>>
                      THEN tab.TabProperties.Title
                      ELSE docTitle
             own == IF tab.TabProperties # Nil /\ tab.DocumentTab # Nil
                    THEN <<tabContent(tab, docTitle)>>
                    ELSE <<>>
             children == IF Len(tab.ChildTabs) > 0
                         THEN sliceElems(collectAllTabs_parentTitle(tab.ChildTabs, title))
                         ELSE <<>>
         IN  appendSlice(appendSlice(appendSlice(Nil, own), children),
                         sliceElems(collectAllTabs_parentTitle(Tail(tabs), docTitle)))

\* the slice collectAllTabs returns: its result starts as the nil slice; the
\* tab's own fragment is appended, then the fragments of its child tabs, then
\* the loop goes on to the tab's next sibling
RECURSIVE collectAllTabs(_, _)
collectAllTabs(tabs, docTitle) ==
    IF tabs = <<>> THEN Nil
    ELSE LET tab == Head(tabs)
             own == IF tab.TabProperties # Nil /\ tab.DocumentTab # Nil
                    THEN <<tabContent(tab, docTitle)>>
                    ELSE <<>>
             children == IF Len(tab.ChildTabs) > 0
                         THEN sliceElems(collectAllTabs(tab.ChildTabs, docTitle))
                         ELSE <<>>
         IN  appendSlice(appendSlice(appendSlice(Nil, own), children),
                         sliceElems(collectAllTabs(Tail(tabs), docTitle)))

\* a legacy fragment rendered with the headings one level down
legacyTab_offsetOne(doc) ==
    [TabID |-> <<>>,
     TabTitle |-> doc.Title,
     TabMarkdown |-> normalizeNewlines(extractMarkdownContent(<<>>, doc.Body.Content, Nil, 1))]

\* the single fragment of a document without tabs
legacyTab(doc) ==
    [TabID |-> <<>>,
     TabTitle |-> doc.Title,
     TabMarkdown |-> normalizeNewlines(extractMarkdownContent(<<>>, doc.Body.Content, Nil, 0))]

\* response.Tabs as GetContentHandler builds it from the fetched document: it
\* starts as the empty slice []DocsTabContent{}
responseTabs(doc) ==
    IF Len(doc.Tabs) > 0 THEN collectAllTabs(doc.Tabs, doc.Title)
    ELSE IF doc.Body # Nil THEN appendSlice([elems |-> <<>>], <<legacyTab(doc)>>)
    ELSE [elems |-> <<>>]

(***************************************************************************)
(* Response Marshalling                                                    *)
(***************************************************************************)
\* a string handed to a builder once for every entry of a sequence
RECURSIVE Join(_, _)
Join(strs, sep) ==
    IF strs = <<>> THEN <<>>
    ELSE IF Len(strs) = 1 THEN Head(strs)
    ELSE Head(strs) \o sep \o Join(Tail(strs), sep)

\* DocsGetContentResponse.MarshalCompact: a header with the title and the id,
\* a header and the Markdown of each fragment, ended by a newline when the
\* Markdown is not; the last newline of the whole is trimmed
RECURSIVE compactTabs(_)
compactTabs(tabs) ==
    IF tabs = <<>> THEN <<>>
    ELSE LET tab == Head(tabs)
         IN  <<NL, "-", "-", "-", SP, "T", "a", "b", ":", SP>> \o tab.TabTitle
                 \o (IF tab.TabID # <<>>
                     THEN <<SP, "(", "i", "d", ":", SP>> \o tab.TabID \o <<")">>
                     ELSE <<>>)
                 \o <<SP, "-", "-", "-", NL>>
                 \o tab.TabMarkdown
                 \o (IF ~HasSuffix(tab.TabMarkdown, <<NL>>) THEN <<NL>> ELSE <<>>)
                 \o compactTabs(Tail(tabs))

MarshalCompact(d) ==
    TrimSuffix(<<"=", "=", "=", SP, "D", "o", "c", "u", "m", "e", "n", "t", ":", SP>> \o d.DocTitle
                   \o <<SP, "=", "=", "=", NL, "I", "D", ":", SP>> \o d.DocID \o <<NL>>
                   \o compactTabs(sliceElems(d.Tabs)),
               <<NL>>)

HexDigits ==
    <<"0", "1", "2", "3", "4", "5", "6", "7", "8", "9", "a", "b", "c", "d", "e", "f">>

\* encoding/json for one character of a string, HTML-escaping on: the quote
\* and the backslash are escaped, '\b', '\f', '\n', '\r', '\t' take their
\* short form, every other character below U+0020 is written \u00xx, and
\* '<', '>', '&', U+2028, U+2029 are written in the \u form too
jsonChar(c) ==
    CASE c = "\"" -> <<"\\", "\"">>
      [] c = "\\" -> <<"\\", "\\">>
      [] c = BS -> <<"\\", "b">>
      [] c = FF -> <<"\\", "f">>
      [] c = NL -> <<"\\", "n">>
      [] c = CR -> <<"\\", "r">>
      [] c = TAB -> <<"\\", "t">>
      [] c = "<" -> <<"\\", "u", "0", "0", "3", "c">>
      [] c = ">" -> <<"\\", "u", "0", "0", "3", "e">>
      [] c = "&" -> <<"\\", "u", "0", "0", "2", "6">>
      [] c = LSEP -> <<"\\", "u", "2", "0", "2", "8">>
      [] c = PSEP -> <<"\\", "u", "2", "0", "2", "9">>
      [] OTHER ->
           IF \E n \in DOMAIN ControlChars : ControlChars[n] = c
           THEN LET code == (CHOOSE n \in DOMAIN ControlChars : ControlChars[n] = c) - 1
                IN  <<"\\", "u", "0", "0", HexDigits[(code \div 16) + 1],
                      HexDigits[(code % 16) + 1]>>
           ELSE <<c>>

RECURSIVE jsonEscape(_)
jsonEscape(str) ==
    IF str = <<>> THEN <<>> ELSE jsonChar(Head(str)) \o jsonEscape(Tail(str))

jsonString(str) == <<"\"">> \o jsonEscape(str) \o <<"\"">>

\* json.Marshal of a DocsTabContent, by its field tags
jsonTab(tab) ==
    <<"{", "\"", "t", "a", "b", "I", "d", "\"", ":">> \o jsonString(tab.TabID)
        \o <<",", "\"", "t", "a", "b", "T", "i", "t", "l", "e", "\"", ":">> \o jsonString(tab.TabTitle)
        \o <<",", "\"", "t", "a", "b", "M", "a", "r", "k", "d", "o", "w", "n", "\"", ":">> \o jsonString(tab.TabMarkdown)
        \o <<"}">>

\* json.Marshal of a DocsGetContentResponse: a nil slice is null, any other
\* slice an array
jsonMarshal(d) ==
    <<"{", "\"", "d", "o", "c", "I", "d", "\"", ":">> \o jsonString(d.DocID)
        \o <<",", "\"", "d", "o", "c", "T", "i", "t", "l", "e", "\"", ":">> \o jsonString(d.DocTitle)
        \o <<",", "\"", "t", "a", "b", "s", "\"", ":">>
        \o (IF d.Tabs = Nil THEN <<"n", "u", "l", "l">>
            ELSE <<"[">> \o Join([i \in DOMAIN d.Tabs.elems |-> jsonTab(d.Tabs.elems[i])], <<",">>)
                     \o <<"]">>)
        \o <<"}">>

\* types.MarshalResponse for a DocsGetContentResponse, which is a
\* CompactMarshaler, under the output format of the process
MarshalResponse(format, v) ==
    IF format = OutputFormatCompact THEN MarshalCompact(v) ELSE jsonMarshal(v)

\* the tool results of package mcp
NewToolResultText(text) == [IsError |-> FALSE, Text |-> text]

NewToolResultError(text) == [IsError |-> TRUE, Text |-> text]

\* the messages of the handler's two error results
DocumentIdRequired ==
    <<"d", "o", "c", "u", "m", "e", "n", "t", "_", "i", "d", SP, "i", "s", SP, "r", "e", "q", "u", "i", "r", "e", "d">>

FailedToGetDocument ==
    <<"f", "a", "i", "l", "e", "d", SP, "t", "o", SP, "g", "e", "t", SP, "d", "o", "c", "u", "m", "e", "n", "t", ":", SP>>

\* what one call of GetContentHandler returns for its arguments and the
\* outcome of its fetch
handlerResult(format, args, err, doc) ==
    IF args.DocumentID = <<>> THEN NewToolResultError(DocumentIdRequired)
    ELSE IF err # Nil THEN NewToolResultError(FailedToGetDocument \o err.Error)
    ELSE NewToolResultText(
             MarshalResponse(format, [DocID |-> args.DocumentID,
                                      DocTitle |-> doc.Title,
                                      Tabs |-> responseTabs(doc)]))

(***************************************************************************)
(* Spec: GetContentHandler applied to every bounded document               *)
(***************************************************************************)
MaxTabs == 4

\* the strings of the documents: the title of the document, the title of a
\* titled tab (it ends in a control character), the id of the document, the
\* message of a failed fetch
DocName == <<"D", "o", "c">>

TabName == <<"T", "a", "b", ESC>>

DocId == <<"d", "o", "c">>

FetchError == [Error |-> <<"e", "r", "r">>]

\* the id of the tab at a path of the tab tree: "1", "1.2", "1.2.1", ...
Digits == <<"1", "2", "3", "4", "5", "6", "7", "8", "9">>

RECURSIVE PathId(_)
PathId(path) ==
    IF Len(path) = 1 THEN <<Digits[path[1]]>>
    ELSE <<Digits[Head(path)], ".">> \o PathId(Tail(path))

\* a body whose Markdown holds runs of three newlines before it is normalized
BodyA ==
    [Content |->
        << ParaElem(Heading("TITLE", <<"a", NL>>)),
           ParaElem(Text(<<"a", NL>>)),
           TableElem(OneCellTable(<<ParaElem(Text(<<"A", NL>>))>>)),
           BreakElem,
           ParaElem(Item("ordered", 0, <<"a", NL>>)),
           ParaElem(Text(<<"a", VT, VT, "a", NL>>)) >>]

BodyB == [Content |-> << BreakElem, ParaElem(Text(<<"a", NL>>)) >>]

\* a body with a heading at top level, one in a table cell, and one in the
\* cell of a table nested in that cell
BodyC ==
    [Content |->
        << ParaElem(Heading("HEADING_2", <<"a", NL>>)),
           TableElem(OneCellTable(
               << ParaElem(Heading("HEADING_3", <<"a", NL>>)),
                  TableElem(OneCellTable(<<ParaElem(Heading("TITLE", <<"a", NL>>))>>)) >>)) >>]

\* a tab's own fields by kind: complete, untitled, without properties,
\* without a document tab, without a body, with headings in table cells.
\* The tab id names the tab's path in the tab tree, "i.j" for child j of
\* top-level tab i.
TabKinds == {"full", "untitled", "noprops", "nodoc", "nobody", "tables"}

MakeTab(kind, path, children) ==
    [TabProperties |->
         IF kind = "noprops" THEN Nil
         ELSE [TabId |-> PathId(path), Title |-> IF kind = "untitled" THEN <<>> ELSE TabName],
     DocumentTab |->
         IF kind = "nodoc" THEN Nil
         ELSE [Body |-> IF kind = "nobody" THEN Nil
                        ELSE IF kind = "untitled" THEN BodyB
                        ELSE IF kind = "tables" THEN BodyC ELSE BodyA,
               Lists |-> IF kind = "untitled" THEN Nil ELSE TheLists],
     ChildTabs |-> children]

\* the tab forests of at most n tabs, each as the depths of its tabs in pre-order
RECURSIVE TreeShapes(_)
TreeShapes(n) ==
    IF n = 0 THEN {<<>>}
    ELSE LET smaller == TreeShapes(n - 1)
         IN  smaller \cup
             UNION { {Append(w, d) : d \in 0..(IF w = <<>> THEN 0 ELSE w[Len(w)] + 1)} :
                     w \in {v \in smaller : Len(v) = n - 1} }

\* number of leading depths of a pre-order that lie below the root
RECURSIVE SubtreeSize(_)
SubtreeSize(depths) ==
    IF depths # <<>> /\ Head(depths) > 0 THEN 1 + SubtreeSize(Tail(depths)) ELSE 0

\* the tabs of a forest given by its pre-order depths; tabs alternate between
\* the two kinds by depth and position
RECURSIVE BuildTabs(_, _, _, _, _)
BuildTabs(depths, path, k, kind1, kind2) ==
    IF depths = <<>> THEN <<>>
    ELSE LET m == SubtreeSize(Tail(depths))
             below == [i \in 1..m |-> depths[i + 1] - 1]
             rest == SubSeq(depths, m + 2, Len(depths))
             myPath == Append(path, k)
         IN  <<MakeTab(IF (Len(myPath) + k) % 2 = 0 THEN kind1 ELSE kind2, myPath,
                       BuildTabs(below, myPath, 1, kind1, kind2))>>
                 \o BuildTabs(rest, path, k + 1, kind1, kind2)

Documents ==
    { [Title |-> DocName, Tabs |-> BuildTabs(shape, <<>>, 1, kind1, kind2), Body |-> body] :
        shape \in TreeShapes(MaxTabs), kind1 \in TabKinds, kind2 \in TabKinds,
        body \in {Nil, BodyA, BodyB, BodyC} }

\* the arguments, the document the Docs service returns or its failure, and
\* the output format of the process
Init ==
    /\ pc = "call"
    /\ input \in [args : [DocumentID : {<<>>, DocId}], err : {Nil, FetchError},
                   doc : Documents]
    /\ sb = <<>>
    /\ result = Nil
    /\ pkg \in Packages
    /\ response = Nil

\* the handler up to the fetch: without a document id it returns its error
\* result, else it sends Documents.Get(...).Do() and waits for the answer
GetContentHandlerRequest ==
    /\ pc = "call"
    /\ IF input.args.DocumentID = <<>>
       THEN /\ pc' = "error"
            /\ result' = NewToolResultError(DocumentIdRequired)
       ELSE /\ pc' = "fetch"
            /\ result' = result
    /\ UNCHANGED <<input, sb, pkg, response>>

\* the handler from the answer of the fetch to its return: on the fetch's
\* error it returns its error result, else response is built and returned
\* marshalled
GetContentHandlerAnswer ==
    /\ pc = "fetch"
    /\ IF input.err # Nil
       THEN /\ pc' = "error"
            /\ response' = response
            /\ result' = NewToolResultError(FailedToGetDocument \o input.err.Error)
       ELSE /\ pc' = "done"
            /\ response' = [DocID |-> input.args.DocumentID,
                            DocTitle |-> input.doc.Title,
                            Tabs |-> responseTabs(input.doc)]
            /\ result' = NewToolResultText(MarshalResponse(pkg.GlobalOutputFormat, response'))
    /\ UNCHANGED <<input, sb, pkg>>

GetContentHandler == GetContentHandlerRequest \/ GetContentHandlerAnswer

Next == GetContentHandler

Spec == Init /\ [][Next]_vars

\* the fragments of the response
Fragments == sliceElems(response.Tabs)

\* the path a tab id names
PathOf(id) ==
    [i \in 1..((Len(id) + 1) \div 2) |->
        CHOOSE n \in DOMAIN Digits : Digits[n] = id[2 * i - 1]]

\* the Markdown of a body before it is normalized
RawMarkdown(body, lists) == extractMarkdownContent(<<>>, body.Content, lists, 0)

\* C3: the Markdown of every emitted fragment, of a tabbed or a legacy
\* document, holds no run of three or more newlines.
C3_FragmentsNormalized ==
    pc = "done" =>
        \A i \in 1..Len(Fragments) : ~HasTripleNewline(Fragments[i].TabMarkdown)

C3_Witness ==
    /\ pc = "done"
    /\ Len(input.doc.Tabs) > 0
    /\ HasTripleNewline(RawMarkdown(BodyA, TheLists))
    /\ \E i \in 1..Len(Fragments) :
          Fragments[i].TabMarkdown = normalizeNewlines(RawMarkdown(BodyA, TheLists))

\* tab path p comes before tab path q in depth-first pre-order: p is an
\* ancestor of q, or at the first place they differ p goes to an earlier sibling
Precedes(p, q) ==
    \/ Len(p) < Len(q) /\ SubSeq(q, 1, Len(p)) = p
    \/ \E k \in 1..Min(Len(p), Len(q)) :
          /\ SubSeq(p, 1, k - 1) = SubSeq(q, 1, k - 1)
          /\ p[k] < q[k]

\* C10: fragments come in depth-first pre-order: a tab's fragment before those
\* of its descendants, a tab's whole subtree before its next sibling, siblings
\* in their order.
C10_PreOrder ==
    (pc = "done" /\ Len(input.doc.Tabs) > 0) =>
        \A i, j \in 1..Len(Fragments) :
            Precedes(PathOf(Fragments[i].TabID), PathOf(Fragments[j].TabID)) => i < j

C10_Witness ==
    /\ pc = "done"
    /\ \E i \in 1..(Len(Fragments) - 2) :
          /\ Fragments[i].TabID = PathId(<<1>>)
          /\ Fragments[i + 1].TabID = PathId(<<1, 1>>)
          /\ Fragments[i + 2].TabID = PathId(<<2>>)

\* C17: a document with no top-level tabs but a legacy body yields exactly one
\* fragment, with an empty tab id, the document title as its title, and as
\* Markdown the normalized output of the walker over the body at heading
\* offset 0 with an empty list catalog; with neither tabs nor body the
\* fragment sequence is empty.
C17_LegacyFragment ==
    (pc = "done" /\ Len(input.doc.Tabs) = 0) =>
        IF input.doc.Body # Nil
        THEN /\ Len(Fragments) = 1
             /\ Fragments[1].TabID = <<>>
             /\ Fragments[1].TabTitle = input.doc.Title
             /\ Fragments[1].TabMarkdown =
                    normalizeNewlines(
                        extractMarkdownContent(<<>>, input.doc.Body.Content, EmptyLists, 0))
        ELSE response.Tabs = [elems |-> <<>>]

C17_Witness ==
    /\ pc = "done"
    /\ input.doc.Tabs = <<>>
    /\ input.doc.Body = BodyA
    /\ Len(Fragments) = 1
    /\ Fragments[1].TabTitle = DocName
    /\ StartsWith(Fragments[1].TabMarkdown, <<"#", SP, "a", NL, NL, "a", NL, NL, "|", SP, "A">>)

\* the tab at a path of the tab tree
RECURSIVE TabAt(_, _)
TabAt(tabs, path) ==
    IF Len(path) = 1 THEN tabs[path[1]]
    ELSE TabAt(tabs[path[1]].ChildTabs, Tail(path))

\* C18: every fragment carries its tab's own id, and its title is the tab's
\* own title when that is non-empty and the document title otherwise, at
\* every depth of the tab tree: an untitled child takes the document title,
\* not its parent's.
C18_OwnIdAndTitle ==
    (pc = "done" /\ Len(input.doc.Tabs) > 0) =>
        \A i \in 1..Len(Fragments) :
            LET fragment == Fragments[i]
                tab == TabAt(input.doc.Tabs, PathOf(fragment.TabID))
            IN  /\ tab.TabProperties # Nil /\ tab.DocumentTab # Nil
                /\ fragment.TabID = tab.TabProperties.TabId
                /\ fragment.TabTitle = IF tab.TabProperties.Title # <<>>
                                       THEN tab.TabProperties.Title
                                       ELSE input.doc.Title
                /\ fragment.TabMarkdown =
                       IF tab.DocumentTab.Body = Nil THEN <<>>
                       ELSE normalizeNewlines(RawMarkdown(tab.DocumentTab.Body,
                                                          tab.DocumentTab.Lists))

C18_Witness ==
    /\ pc = "done"
    /\ \E i \in 1..(Len(Fragments) - 2) :
          /\ Fragments[i].TabID = PathId(<<1>>) /\ Fragments[i].TabTitle = TabName
          /\ Fragments[i + 1].TabID = PathId(<<1, 1>>) /\ Fragments[i + 1].TabTitle = DocName
          /\ Fragments[i + 2].TabID = PathId(<<1, 1, 1>>) /\ Fragments[i + 2].TabTitle = TabName

\* the tabs of a forest at any depth
RECURSIVE TabsAtAnyDepth(_)
TabsAtAnyDepth(tabs) ==
    UNION { {tabs[i]} \cup TabsAtAnyDepth(tabs[i].ChildTabs) : i \in DOMAIN tabs }

Qualifies(tab) == tab.TabProperties # Nil /\ tab.DocumentTab # Nil

\* C28: for a document with at least one top-level tab, the response holds
\* exactly one fragment for each tab, at any depth, that has both tab
\* properties and a document tab, and none for any other tab; a skipped tab
\* does not hide its children; a qualifying tab without body yields empty
\* Markdown; the legacy body is never used, even when no tab qualifies.
C28_OneFragmentPerQualifyingTab ==
    (pc = "done" /\ Len(input.doc.Tabs) > 0) =>
        LET all == TabsAtAnyDepth(input.doc.Tabs)
            qualifying == {tab \in all : Qualifies(tab)}
            fragments == Fragments
        IN  /\ Len(fragments) = Cardinality(qualifying)
            /\ \A tab \in qualifying :
                   /\ Cardinality({i \in DOMAIN fragments :
                                      fragments[i].TabID = tab.TabProperties.TabId}) = 1
                   /\ tab.DocumentTab.Body = Nil =>
                          \A i \in DOMAIN fragments :
                              fragments[i].TabID = tab.TabProperties.TabId =>
                                  fragments[i].TabMarkdown = <<>>
            /\ \A tab \in all \ qualifying :
                   tab.TabProperties # Nil =>
                       \A i \in DOMAIN fragments :
                           fragments[i].TabID # tab.TabProperties.TabId
            /\ \A i \in DOMAIN fragments : fragments[i].TabID # <<>>
            /\ qualifying = {} => fragments = <<>>

C28_Witness ==
    /\ pc = "done"
    /\ input.doc.Body = BodyA
    /\ Len(input.doc.Tabs) = 2
    /\ input.doc.Tabs[1].DocumentTab = Nil
    /\ input.doc.Tabs[2].DocumentTab # Nil
    /\ Len(input.doc.Tabs[1].ChildTabs) = 1
    /\ Fragments = << [TabID |-> PathId(<<1, 1>>), TabTitle |-> TabName, TabMarkdown |-> <<>>],
                        [TabID |-> PathId(<<2>>), TabTitle |-> TabName, TabMarkdown |-> <<>>] >>

\* the levels of the headings a content slice holds, in document order, those
\* in table cells at any depth included
RECURSIVE HeadingLevels(_)
HeadingLevels(elements) ==
    IF elements = <<>> THEN <<>>
    ELSE LET elem == Head(elements)
             RECURSIVE InCells(_)
             InCells(cells) ==
                 IF cells = <<>> THEN <<>>
                 ELSE HeadingLevels(Head(cells).Content) \o InCells(Tail(cells))
             RECURSIVE InRows(_)
             InRows(rows) ==
                 IF rows = <<>> THEN <<>>
                 ELSE InCells(Head(rows).TableCells) \o InRows(Tail(rows))
         IN  (IF elem.Paragraph # Nil /\ ClaimedLevel(elem.Paragraph) > 0
                     /\ HasContent(elem.Paragraph)
              THEN <<ClaimedLevel(elem.Paragraph)>> ELSE <<>>)
             \o (IF elem.Table # Nil THEN InRows(elem.Table.TableRows) ELSE <<>>)
             \o HeadingLevels(Tail(elements))

\* the lengths of the maximal runs of '#' in a string, in order
RECURSIVE HashRuns(_)
HashRuns(str) ==
    IF str = <<>> THEN <<>>
    ELSE LET n == LeadingIn(str, {"#"})
         IN  IF n > 0 THEN <<n>> \o HashRuns(SubSeq(str, n + 1, Len(str)))
             ELSE HashRuns(Tail(str))

\* C29: the heading offset reaches every recursion unchanged and both entry
\* points start at 0: in every fragment of a response, of a tab or of the
\* legacy body, each heading of native level L, at top level or in a cell
\* of a table or of a nested table, is written with exactly L '#'.
C29_NativeHeadingLevels ==
    pc = "done" =>
        /\ \A i \in DOMAIN Fragments :
               LET fragment == Fragments[i]
                   body == IF fragment.TabID = <<>> THEN input.doc.Body
                           ELSE TabAt(input.doc.Tabs, PathOf(fragment.TabID)).DocumentTab.Body
               IN  HashRuns(fragment.TabMarkdown) =
                       IF body = Nil THEN <<>> ELSE HeadingLevels(body.Content)

C29_Witness ==
    /\ pc = "done"
    /\ input.doc.Body = BodyC
    /\ Len(input.doc.Tabs) = 1
    /\ Len(Fragments) = 1
    /\ HashRuns(Fragments[1].TabMarkdown) = <<2, 3, 1>>
    /\ Fragments[1].TabMarkdown =
           <<"#", "#", SP, "a", NL, NL,
             "|", SP, "#", "#", "#", SP, "a", SP, SP, SP,
                      "|", SP, "#", SP, "a", SP, "|", SP, "|", SP, "-", "-", "-", SP, "|", SP, "|", NL,
             "|", SP, "-", "-", "-", SP, "|", NL, NL>>

(***************************************************************************)
(* SpecConc: NumCalls calls of GetContentHandler running at once, each a   *)
(* goroutine of the server, interleaved one step at a time.  Here pc,      *)
(* input, sb and result hold one value per call: pc[g] is the call's       *)
(* position with its local variables (the tabs still to visit, the         *)
(* fragment being built, the elements still to walk, the fragments         *)
(* collected), sb[g] the strings.Builder the call declared last.           *)
(***************************************************************************)
NumCalls == 2

Calls == 1..NumCalls

LegacyName == <<"L", "e", "g", "a", "c", "y">>

EmptyName == <<"E", "m", "p", "t", "y">>

\* the documents the calls fetch: tabs at two depths with one tab skipped, a
\* legacy body, and neither
ConcDocs ==
    { [Title |-> DocName,
       Tabs |-> << MakeTab("full", <<1>>, << MakeTab("untitled", <<1, 1>>, <<>>) >>),
                   MakeTab("nodoc", <<2>>, <<>>) >>,
       Body |-> Nil],
      [Title |-> LegacyName, Tabs |-> <<>>, Body |-> BodyB],
      [Title |-> EmptyName, Tabs |-> <<>>, Body |-> Nil] }

\* one builder for all calls: a write reaches every call's text
writeBuilder_shared(builders, g, text) == [h \in DOMAIN builders |-> text]

\* a write to the builder of call g, a local variable of that call
writeBuilder(builders, g, text) == [builders EXCEPT ![g] = text]

InitConc ==
    /\ pc = [g \in Calls |->
                [at |-> "call", tabs |-> <<>>, cur |-> Nil, elements |-> <<>>, frags |-> Nil]]
    /\ input \in [Calls -> [args : [DocumentID : {<<>>, DocId}], err : {Nil, FetchError},
                            doc : ConcDocs]]
    /\ sb = [g \in Calls |-> <<>>]
    /\ result = [g \in Calls |-> Nil]
    /\ pkg \in Packages
    /\ response = [g \in Calls |-> Nil]

\* the handler up to the fetch: without a document id it returns its error
\* result, else it issues Documents.Get(...).Do() and waits for the answer
HandlerEntry(g) ==
    /\ pc[g].at = "call"
    /\ IF input[g].args.DocumentID = <<>>
       THEN /\ pc' = [pc EXCEPT ![g].at = "error"]
            /\ result' = [result EXCEPT ![g] = NewToolResultError(DocumentIdRequired)]
       ELSE /\ pc' = [pc EXCEPT ![g].at = "fetch"]
            /\ result' = result
    /\ UNCHANGED <<input, sb, pkg, response>>

\* the fetch returns: on its error the handler returns its error result, else
\* it declares response and chooses between the tabs and the legacy body
FetchReturn(g) ==
    /\ pc[g].at = "fetch"
    /\ LET doc == input[g].doc
       IN  IF input[g].err # Nil
           THEN /\ pc' = [pc EXCEPT ![g].at = "error"]
                /\ result' = [result EXCEPT
                                ![g] = NewToolResultError(FailedToGetDocument
                                                              \o input[g].err.Error)]
                /\ UNCHANGED <<sb, response>>
           ELSE /\ result' = result
                /\ response' = [response EXCEPT
                                  ![g] = [DocID |-> input[g].args.DocumentID,
                                          DocTitle |-> doc.Title,
                                          Tabs |-> [elems |-> <<>>]]]
                /\ IF Len(doc.Tabs) > 0
                   THEN /\ pc' = [pc EXCEPT ![g].at = "tab", ![g].tabs = doc.Tabs]
                        /\ sb' = sb
                   ELSE IF doc.Body # Nil
                   THEN /\ pc' = [pc EXCEPT ![g].at = "walk",
                                            ![g].cur = [TabID |-> <<>>, TabTitle |-> doc.Title,
                                                        lists |-> Nil],
                                            ![g].elements = doc.Body.Content]
                        /\ sb' = writeBuilder(sb, g, <<>>)
                   ELSE /\ pc' = [pc EXCEPT ![g].at = "tab"]
                        /\ sb' = sb
    /\ UNCHANGED <<input, pkg>>

\* collectAllTabs takes the next tab in pre-order: a tab with properties and
\* a document tab gets a fresh builder, any other tab is passed over; the
\* child tabs come next, before the tab's later siblings
NextTab(g) ==
    /\ pc[g].at = "tab"
    /\ pc[g].tabs # <<>>
    /\ LET tab == Head(pc[g].tabs)
           rest == tab.ChildTabs \o Tail(pc[g].tabs)
       IN  IF tab.TabProperties # Nil /\ tab.DocumentTab # Nil
           THEN /\ pc' = [pc EXCEPT
                            ![g].at = "walk",
                            ![g].tabs = rest,
                            ![g].cur = [TabID |-> tab.TabProperties.TabId,
                                        TabTitle |-> IF tab.TabProperties.Title = <<>>
                                                     THEN input[g].doc.Title
                                                     ELSE tab.TabProperties.Title,
                                        lists |-> tab.DocumentTab.Lists],
                            ![g].elements = IF tab.DocumentTab.Body # Nil
                                            THEN tab.DocumentTab.Body.Content
                                            ELSE <<>>]
                /\ sb' = writeBuilder(sb, g, <<>>)
           ELSE /\ pc' = [pc EXCEPT ![g].tabs = rest]
                /\ sb' = sb
    /\ UNCHANGED <<input, result, pkg, response>>

\* one iteration of the walker's loop, into the call's builder
WalkStep(g) ==
    /\ pc[g].at = "walk"
    /\ pc[g].elements # <<>>
    /\ sb' = writeBuilder(sb, g, walkElement(sb[g], Head(pc[g].elements), pc[g].cur.lists, 0))
    /\ pc' = [pc EXCEPT ![g].elements = Tail(@)]
    /\ UNCHANGED <<input, result, pkg, response>>

\* the walk is over: the fragment, with the builder's text normalized, is
\* appended to the collector's result or, for the legacy body, to response.Tabs
AppendFragment(g) ==
    /\ pc[g].at = "walk"
    /\ pc[g].elements = <<>>
    /\ LET fragment == [TabID |-> pc[g].cur.TabID,
                        TabTitle |-> pc[g].cur.TabTitle,
                        TabMarkdown |-> normalizeNewlines(sb[g])]
       IN  IF Len(input[g].doc.Tabs) > 0
           THEN /\ pc' = [pc EXCEPT ![g].at = "tab",
                                    ![g].frags = appendSlice(@, <<fragment>>)]
                /\ response' = response
           ELSE /\ pc' = [pc EXCEPT ![g].at = "tab"]
                /\ response' = [response EXCEPT
                                  ![g].Tabs = appendSlice(@, <<fragment>>)]
    /\ UNCHANGED <<input, sb, result, pkg>>

\* no tab is left: the collector's result, if it ran, becomes response.Tabs,
\* and the handler returns the response marshalled
HandlerReturn(g) ==
    /\ pc[g].at = "tab"
    /\ pc[g].tabs = <<>>
    /\ pc' = [pc EXCEPT ![g].at = "done"]
    /\ response' = [response EXCEPT
                      ![g].Tabs = IF Len(input[g].doc.Tabs) > 0 THEN pc[g].frags ELSE @]
    /\ result' = [result EXCEPT
                    ![g] = NewToolResultText(
                               MarshalResponse(pkg.GlobalOutputFormat, response'[g]))]
    /\ UNCHANGED <<input, sb, pkg>>

NextConc ==
    \E g \in Calls :
        \/ HandlerEntry(g)
        \/ FetchReturn(g)
        \/ NextTab(g)
        \/ WalkStep(g)
        \/ AppendFragment(g)
        \/ HandlerReturn(g)

SpecConc == InitConc /\ [][NextConc]_vars

\* what a call with these arguments returns when it runs alone
Alone(in) == handlerResult(pkg.GlobalOutputFormat, in.args, in.err, in.doc)

\* C16: calls running at once do not interact: each collects exactly the
\* fragments, and returns exactly what, it does when run alone; a builder's
\* text changes only in a step of the call that owns it, and the package's
\* compiled newline pattern is never written after initialization.
C16_NoInterference ==
    /\ [](\A g \in Calls :
            /\ pc[g].at \in {"done", "error"} => result[g] = Alone(input[g])
            /\ pc[g].at = "done" => response[g].Tabs = responseTabs(input[g].doc))
    /\ [][\A g \in Calls :
            sb'[g] # sb[g] => /\ pc'[g] # pc[g]
                              /\ \A h \in Calls \ {g} : pc'[h] = pc[h]]_vars
    /\ [][pkg' = pkg]_vars

C16_Witness ==
    /\ pc[1].at = "done"
    /\ Len(response[1].Tabs.elems) = 2
    /\ pc[2].at = "walk"
    /\ input[2].doc.Title = LegacyName
    /\ sb[2] = <<"a", NL, NL>>
    /\ response[1].Tabs.elems[1].TabTitle = TabName
    /\ response[1].Tabs.elems[2].TabTitle = DocName

====
